---- MODULE Spec2Model ----
(***************************************************************************)
(* Risk Manager API (myhousemouse/Risk_api_server).                        *)
(*                                                                         *)
(* A model of the deterministic core of the service: the industry          *)
(* classifier (app/classifier.py), the OSD risk engine (app/risk_engine.py)*)
(* and the orchestrator with its session store (app/service.py), as seen   *)
(* through the routes of app/main.py.                                      *)
(*                                                                         *)
(* Enum members are written as strings carrying the member's name          *)
(* (IndustryCategory.EDUCATION is "EDUCATION", AnalysisMethod.SWOT is      *)
(* "SWOT").  Python's None is the string "None".                           *)
(***************************************************************************)
EXTENDS Integers, Sequences, FiniteSets, TLC

VARIABLES
    pc,             \* position of the call under study: "call" | "done"
    categories,     \* select_analysis_methods: the argument (list of category ids)
    selected,       \* select_analysis_methods: the returned list
    description,    \* classify_business: the argument (text, as code points)
    classified,     \* classify_business: the returned list
    calls,          \* classify_business: the calls made so far, with their results
    risk_score,     \* get_risk_level, get_risk_grade: the argument
    level,          \* get_risk_level: the returned level
    grade,          \* get_risk_grade: the returned grade
    raw_osd,        \* OSDScore(**raw_osd): the keyword arguments
    osd,            \* OSDScore(**raw_osd): the object built, or "ValidationError"
    osd_values,     \* apply_industry_correction: the argument {"O", "S", "D"}
    corrected,      \* apply_industry_correction: the returned dict
    osd_scores,     \* calculate_overall_risk: the argument (list of OSDScore)
    fp_error,       \* calculate_overall_risk: the rounding of the double arithmetic
    overall,        \* calculate_overall_risk: the returned tuple
    sessions,       \* SessionStore.sessions: session id -> session data
    response,       \* the outcome of the last request handled by a route
    gpt_service,    \* the collaborator the service was constructed with
    investment_amount, \* calculate_total_expected_loss: the investment
    industry,       \* calculate_total_expected_loss: the industry
    cost_analysis   \* calculate_total_expected_loss: the returned dict

vars == <<pc, categories, selected, description, classified, calls,
          risk_score, level, grade, raw_osd, osd, osd_values, corrected,
          osd_scores, fp_error, overall, sessions, response, gpt_service,
          investment_amount, industry, cost_analysis>>

selectVars   == <<categories, selected>>
classifyVars == <<description, classified, calls>>
levelVars    == <<risk_score, level, grade>>
osdVars      == <<raw_osd, osd, osd_values, corrected>>
riskVars     == <<osd_scores, fp_error, overall>>
serviceVars  == <<sessions, response, gpt_service>>
costVars     == <<investment_amount, industry, cost_analysis>>

\* the variables of the calls that a specification does not exercise
IdleSelect   == categories = << >> /\ selected = << >>
IdleClassify == description = << >> /\ classified = << >> /\ calls = << >>
IdleLevel    == risk_score = 0 /\ level = "None" /\ grade = "None"
IdleOSD      == /\ raw_osd = "None" /\ osd = "None"
                /\ osd_values = "None" /\ corrected = "None"
IdleRisk     == osd_scores = << >> /\ fp_error = "None" /\ overall = "None"
IdleService  == sessions = << >> /\ response = "None" /\ gpt_service = "None"
IdleCost     == investment_amount = << >> /\ industry = "None" /\ cost_analysis = "None"

None == "None"

(***************************************************************************)
(* Bounds of the model.                                                    *)
(***************************************************************************)
\* longest list of classified categories handed to select_analysis_methods
MaxCategories == 3
\* most phrases of Vocabulary a business description is made of
MaxFragments == 3
\* longest list of observations handed to calculate_overall_risk
MaxObservations == 5
\* most sessions the store comes to hold
MaxSessions == 2
\* longest list of observations handed to calculate_total_expected_loss
MaxLosses == 2
\* most calls of classify_business made one after the other
MaxCalls == 3

(***************************************************************************)
(* app/models.py: the closed enumerations.                                 *)
(***************************************************************************)
\* in declaration order
IndustryCategory ==
    << "EDUCATION", "IT_STARTUP", "MANUFACTURING", "MARKETING", "FINANCE",
       "SERVICE", "PROJECT_MANAGEMENT", "GENERAL_BUSINESS" >>

IndustryCategorySet == { IndustryCategory[i] : i \in DOMAIN IndustryCategory }

AnalysisMethod ==
    { "LOGIC_MODEL", "SMART_GOAL", "LEAN_CANVAS", "SWOT", "FIVE_WHY", "FMEA",
      "FTA", "HAZOP", "STP", "FOUR_P", "PORTER_FIVE_FORCES", "VAR",
      "MONTE_CARLO", "SENSITIVITY_ANALYSIS", "SERVICE_BLUEPRINT", "SIPOC",
      "RAID_LOG", "PERT_CPM", "RBS", "CJM" }

(***************************************************************************)
(* app/constants.py                                                        *)
(***************************************************************************)
INDUSTRY_METHODS ==
    [ EDUCATION          |-> << "LOGIC_MODEL", "SMART_GOAL", "CJM" >>,
      IT_STARTUP         |-> << "LEAN_CANVAS", "SWOT", "CJM", "FIVE_WHY" >>,
      MANUFACTURING      |-> << "FMEA", "FTA", "HAZOP" >>,
      MARKETING          |-> << "STP", "FOUR_P", "PORTER_FIVE_FORCES", "SWOT" >>,
      FINANCE            |-> << "VAR", "MONTE_CARLO", "SENSITIVITY_ANALYSIS" >>,
      SERVICE            |-> << "SERVICE_BLUEPRINT", "SIPOC", "CJM" >>,
      PROJECT_MANAGEMENT |-> << "RAID_LOG", "PERT_CPM", "RBS" >>,
      GENERAL_BUSINESS   |-> << "SWOT", "LEAN_CANVAS", "CJM" >> ]

(***************************************************************************)
(* Helpers for Python list idioms.                                         *)
(***************************************************************************)
\* x in xs
In(x, xs) == \E i \in DOMAIN xs : xs[i] = x

\* xs[:n]
Take(xs, n) == SubSeq(xs, 1, IF n < Len(xs) THEN n ELSE Len(xs))

\* all lists over S of length 0..n
SeqUpTo(S, n) == UNION { [1..k -> S] : k \in 0..n }

\* dict.get(key, [])
MethodsOf(category_id) ==
    IF category_id \in DOMAIN INDUSTRY_METHODS
        THEN INDUSTRY_METHODS[category_id]
        ELSE << >>

\* for method in methods: if method not in sel: sel.append(method); break
RECURSIVE AppendFirstNew(_, _)
AppendFirstNew(sel, methods) ==
    IF methods = << >> THEN sel
    ELSE IF ~In(Head(methods), sel) THEN Append(sel, Head(methods))
    ELSE AppendFirstNew(sel, Tail(methods))

\* for method in methods: if method not in sel: sel.append(method);
\*                                               if len(sel) == 2: break
RECURSIVE FillToTwo(_, _)
FillToTwo(sel, methods) ==
    IF methods = << >> THEN sel
    ELSE IF ~In(Head(methods), sel)
        THEN IF Len(sel) + 1 = 2
                THEN Append(sel, Head(methods))
                ELSE FillToTwo(Append(sel, Head(methods)), Tail(methods))
        ELSE FillToTwo(sel, Tail(methods))

(***************************************************************************)
(* IndustryClassifier.select_analysis_methods (classifier.py 66-124).      *)
(* The argument is the list of category ids of the IndustryCategoryInfo    *)
(* entries: the function reads nothing else of them.                       *)
(***************************************************************************)
\* the second pick (lines 89-100) without the "not in selected" test
SecondPickNoDistinctTest(sel, cats, first_category_methods) ==
    IF Len(cats) > 1
        THEN IF MethodsOf(cats[2]) # << >>
                THEN Append(sel, Head(MethodsOf(cats[2])))
                ELSE sel
        ELSE IF Len(first_category_methods) > 1
                THEN Append(sel, first_category_methods[2])
                ELSE sel

\* lines 89-100
SecondPick(sel, cats, first_category_methods) ==
    IF Len(cats) > 1
        THEN AppendFirstNew(sel, MethodsOf(cats[2]))
        ELSE IF Len(first_category_methods) > 1
                THEN Append(sel, first_category_methods[2])
                ELSE sel

\* select_analysis_methods taking its second method from the last category
\* of the list instead of the second: a mutation
select_analysis_methods_last(cats) ==
    IF cats = << >> THEN << "SWOT", "LEAN_CANVAS" >>
    ELSE Take(FillToTwo(
                  FillToTwo(AppendFirstNew(Take(MethodsOf(cats[1]), 1),
                                           MethodsOf(cats[Len(cats)])),
                            MethodsOf(cats[1])),
                  << "SWOT", "LEAN_CANVAS", "CJM" >>), 2)

select_analysis_methods(cats) ==
    IF cats = << >> THEN << "SWOT", "LEAN_CANVAS" >>
    ELSE
        LET first_category_methods == MethodsOf(cats[1])
            \* lines 85-87
            s1 == IF first_category_methods # << >>
                    THEN << first_category_methods[1] >>
                    ELSE << >>
            \* lines 89-100
            s2 == SecondPick(s1, cats, first_category_methods)
            \* lines 102-108
            s3 == IF Len(s2) < 2 /\ first_category_methods # << >>
                    THEN FillToTwo(s2, first_category_methods)
                    ELSE s2
            \* lines 110-121
            s4 == IF Len(s3) < 2
                    THEN FillToTwo(s3, << "SWOT", "LEAN_CANVAS", "CJM" >>)
                    ELSE s3
        IN  \* line 124
            IF Len(s4) >= 2
                THEN Take(s4, 2)
                ELSE s4 \o Take(<< "SWOT", "LEAN_CANVAS" >>, 2 - Len(s4))

(***************************************************************************)
(* Text.  A Python str is the sequence of its Unicode code points, so that *)
(* "keyword in description" is a search for a contiguous subsequence.      *)
(***************************************************************************)
\* str.lower() on the alphabet used here: ASCII letters and Hangul syllables
\* (Hangul has no case)
Lower(s) == [ i \in DOMAIN s |-> IF s[i] \in 65..90 THEN s[i] + 32 ELSE s[i] ]

\* needle in haystack
Contains(needle, haystack) ==
    \E i \in 1..(Len(haystack) - Len(needle) + 1) :
        SubSeq(haystack, i, i + Len(needle) - 1) = needle

(***************************************************************************)
(* constants.py 66-95: INDUSTRY_KEYWORDS, each keyword as its code points, *)
(* in the order of the source.                                             *)
(***************************************************************************)
INDUSTRY_KEYWORDS ==
    [ EDUCATION |-> <<
          <<44368, 50977>>,
          <<54617, 49845>>,
          <<50640, 46272, 53580, 53356>>,
          <<44053, 51032>>,
          <<50728, 46972, 51064, 32, 44053, 51340>>,
          <<54617, 50896>>,
          <<44368, 50977, 32, 53080, 53584, 52768>>,
          <<51060, 47084, 45789>>,
          <<54617, 49373>>,
          <<44368, 49324>>,
          <<44368, 50977, 32, 54540, 47019, 54268>>,
          <<44368, 50977, 50857>>,
          <<54617, 49845, 32, 44288, 47532>>
        >>,
      IT_STARTUP |-> <<
          <<50545>>,
          <<50528, 54540, 47532, 52992, 51060, 49496>>,
          <<49548, 54532, 53944, 50920, 50612>>,
          <<54540, 47019, 54268>>,
          <<83, 97, 97, 83>>,
          <<47784, 48148, 51068>>,
          <<50937>>,
          <<49828, 53440, 53944, 50629>>,
          <<73, 84>>,
          <<44592, 49696>>,
          <<44060, 48156>>,
          <<49436, 48708, 49828, 32, 44060, 48156>>,
          <<46356, 51648, 53560>>,
          <<50728, 46972, 51064, 32, 49436, 48708, 49828>>
        >>,
      MANUFACTURING |-> <<
          <<51228, 51312>>,
          <<49373, 49328>>,
          <<44277, 51109>>,
          <<49444, 48708>>,
          <<54616, 46300, 50920, 50612>>,
          <<51228, 54408, 32, 49373, 49328>>,
          <<49373, 49328, 46972, 51064>>,
          <<51228, 51312, 50629>>,
          <<44277, 51221>>,
          <<51312, 47549>>,
          <<44592, 44228>>,
          <<51228, 51089>>,
          <<50577, 49328>>
        >>,
      MARKETING |-> <<
          <<47560, 52992, 54021>>,
          <<44305, 44256>>,
          <<48652, 47004, 46300>>,
          <<48652, 47004, 46377>>,
          <<54861, 48372>>,
          <<54532, 47196, 47784, 49496>>,
          <<52896, 54168, 51064>>,
          <<49548, 48708, 51116>>,
          <<66, 50, 67>>,
          <<44256, 44061, 32, 50976, 52824>>,
          <<48652, 47004, 46300, 32, 51064, 51648, 46020>>,
          <<47560, 52992, 54021, 32, 51204, 47029>>
        >>,
      FINANCE |-> <<
          <<44552, 50997>>,
          <<53804, 51088>>,
          <<51116, 47924>>,
          <<54144, 46300>>,
          <<51088, 49328, 32, 50868, 50857>>,
          <<51452, 49885>>,
          <<52292, 44428>>,
          <<45824, 52636>>,
          <<54592, 53580, 53356>>,
          <<44552, 50997, 32, 49345, 54408>>,
          <<54252, 53944, 54260, 47532, 50724>>,
          <<47532, 49828, 53356, 32, 44288, 47532>>,
          <<51088, 49328, 32, 44288, 47532>>
        >>,
      SERVICE |-> <<
          <<49436, 48708, 49828>>,
          <<50808, 49885>>,
          <<51020, 49885, 51216>>,
          <<47112, 49828, 53664, 46993>>,
          <<52852, 54168>>,
          <<54532, 47004, 52264, 51060, 51592>>,
          <<49689, 48149>>,
          <<54840, 53588>>,
          <<44172, 49828, 53944, 54616, 50864, 49828>>,
          <<44256, 44061, 32, 49436, 48708, 49828>>,
          <<50724, 54532, 46972, 51064, 32, 47588, 51109>>,
          <<51216, 54252>>
        >>,
      PROJECT_MANAGEMENT |-> <<
          <<54532, 47196, 51229, 53944>>,
          <<44148, 49444>>,
          <<44277, 44277, 49324, 50629>>,
          <<51064, 54532, 46972>>,
          <<49884, 44277>>,
          <<44277, 49324>>,
          <<53664, 47785>>,
          <<45824, 54805, 32, 54532, 47196, 51229, 53944>>,
          <<44148, 52629>>,
          <<49324, 54924, 44592, 48152, 49884, 49444>>,
          <<51221, 48512, 32, 48156, 51452>>,
          <<44277, 44277, 32, 51077, 52272>>
        >> ]

\* the dict's iteration order: the order of declaration (constants.py 66-95)
KeywordCategories ==
    << "EDUCATION", "IT_STARTUP", "MANUFACTURING", "MARKETING", "FINANCE",
       "SERVICE", "PROJECT_MANAGEMENT" >>

(***************************************************************************)
(* IndustryClassifier.classify_business (classifier.py 10-63).             *)
(* An entry of the result is [category_id, confidence_score]; the display  *)
(* name INDUSTRY_NAMES[category_id] is a function of category_id.          *)
(***************************************************************************)
\* lines 25-31: the number of the category's keywords found in the text
KeywordScore(category, description_lower) ==
    Cardinality({ k \in DOMAIN INDUSTRY_KEYWORDS[category] :
                    Contains(Lower(INDUSTRY_KEYWORDS[category][k]),
                             description_lower) })

Min(a, b) == IF a < b THEN a ELSE b

\* line 35 without the cap
ConfidenceUncapped(score) == score * 15

\* line 35
Confidence(score) == Min(score * 15, 95)

\* lines 24-39 on top of the entries the previous call returned, as if
\* scores were kept between calls: a mutation
RECURSIVE ScoreItemsKept(_, _)
ScoreItemsKept(cats, description_lower) ==
    IF cats = << >> THEN classified
    ELSE LET score == KeywordScore(Head(cats), description_lower)
             rest  == ScoreItemsKept(Tail(cats), description_lower)
         IN  IF score > 0
                THEN << [category_id |-> Head(cats),
                         confidence_score |-> Confidence(score)] >> \o rest
                ELSE rest

\* lines 21-39: scores = {} and the loop; scores.items(), in insertion order
RECURSIVE ScoreItems(_, _)
ScoreItems(cats, description_lower) ==
    IF cats = << >> THEN << >>
    ELSE LET score == KeywordScore(Head(cats), description_lower)
             rest  == ScoreItems(Tail(cats), description_lower)
         IN  IF score > 0
                THEN << [category_id |-> Head(cats),
                         confidence_score |-> Confidence(score)] >> \o rest
                ELSE rest

\* insertion before the entries of equal confidence, as a sort that is not
\* stable would place them: a mutation
RECURSIVE InsertDescendingBeforeEqual(_, _)
InsertDescendingBeforeEqual(x, xs) ==
    IF xs = << >> THEN << x >>
    ELSE IF Head(xs).confidence_score > x.confidence_score
        THEN << Head(xs) >> \o InsertDescendingBeforeEqual(x, Tail(xs))
        ELSE << x >> \o xs

\* insertion of x into a list sorted by confidence, descending, after the
\* entries of equal confidence: sorted(..., reverse=True) is stable
RECURSIVE InsertDescending(_, _)
InsertDescending(x, xs) ==
    IF xs = << >> THEN << x >>
    ELSE IF Head(xs).confidence_score >= x.confidence_score
        THEN << Head(xs) >> \o InsertDescending(x, Tail(xs))
        ELSE << x >> \o xs

\* sorted(items, key=confidence) without reverse=True (ascending, stable)
RECURSIVE InsertAscending(_, _)
InsertAscending(x, xs) ==
    IF xs = << >> THEN << x >>
    ELSE IF Head(xs).confidence_score <= x.confidence_score
        THEN << Head(xs) >> \o InsertAscending(x, Tail(xs))
        ELSE << x >> \o xs

RECURSIVE SortedAscending(_)
SortedAscending(items) ==
    IF items = << >> THEN << >>
    ELSE InsertAscending(items[Len(items)],
                         SortedAscending(SubSeq(items, 1, Len(items) - 1)))

\* lines 49-53: sorted(scores.items(), key=confidence, reverse=True)
RECURSIVE SortedByConfidence(_)
SortedByConfidence(items) ==
    IF items = << >> THEN << >>
    ELSE InsertDescending(items[Len(items)],
                          SortedByConfidence(SubSeq(items, 1, Len(items) - 1)))

classify_business(business_description) ==
    LET description_lower == Lower(business_description)
        matched == ScoreItems(KeywordCategories, description_lower)
        \* lines 42-46
        scores == IF matched = << >>
                    THEN << [category_id |-> "GENERAL_BUSINESS",
                             confidence_score |-> 50] >>
                    ELSE matched
    IN  Take(SortedByConfidence(scores), 2)

(***************************************************************************)
(* SpecClassify: classify_business applied to business descriptions made   *)
(* of at most MaxFragments phrases of Vocabulary, in the order of          *)
(* Vocabulary, separated by single spaces.                                 *)
(***************************************************************************)
Vocabulary ==
    << <<45216, 50472, 44032, 32, 51339, 45796>>,   \* the weather is nice: no keyword
       <<54617, 49373, 32, 44368, 49324>>,   \* two education keywords (student, teacher)
       <<44368, 50977, 50857, 32, 54617, 49845, 32, 44288, 47532>>,   \* 4 education keywords
       <<44368, 50977, 32, 53080, 53584, 52768, 32, 54617, 50896>>,   \* 3 education keywords
       <<50728, 46972, 51064, 32, 44053, 51340, 32, 51060, 47084, 45789>>,   \* 2 education keywords
       <<44368, 50977, 32, 54540, 47019, 54268>>,   \* education platform: 2 education keywords and 1 IT keyword
       <<68, 105, 103, 105, 116, 97, 108, 32, 83, 97, 97, 83>>,   \* upper-case ASCII: 'it' inside 'digital', 'saas'
       <<49436, 48708, 49828, 32, 44060, 48156>>,   \* service development: 2 IT keywords, 1 service keyword
       <<52852, 54168>>,   \* cafe: 1 service keyword
       <<51228, 51312>>,   \* manufacturing: 1 keyword
       <<44277, 44277, 49324, 50629>>,   \* public works: 'gongsa' occurs inside 'gonggongsaeop'
       <<44552, 50997, 32, 53804, 51088>> >>   \* finance, investment: 2 finance keywords

RECURSIVE JoinFragments(_, _)
JoinFragments(chosen, i) ==
    IF i > Len(Vocabulary) THEN << >>
    ELSE LET rest == JoinFragments(chosen, i + 1)
         IN  IF i \in chosen
                THEN IF rest = << >> THEN Vocabulary[i]
                     ELSE Vocabulary[i] \o << 32 >> \o rest
                ELSE rest

Descriptions ==
    { JoinFragments(chosen, 1) :
        chosen \in { c \in SUBSET DOMAIN Vocabulary :
                        Cardinality(c) <= MaxFragments } }

InitClassify ==
    /\ pc = "call"
    /\ description \in Descriptions
    /\ classified = << >>
    /\ calls = << >>
    /\ IdleSelect
    /\ IdleLevel
    /\ IdleOSD
    /\ IdleRisk
    /\ IdleService
    /\ IdleCost

ClassifyBusiness ==
    /\ pc = "call"
    /\ classified' = classify_business(description)
    /\ pc' = "done"
    /\ UNCHANGED <<description, calls, selectVars, levelVars, osdVars, riskVars, serviceVars, costVars>>

NextClassify == ClassifyBusiness

SpecClassify == InitClassify /\ [][NextClassify]_vars

\* the categories with at least one keyword in the (lower-cased) description
MatchedCategories ==
    { c \in DOMAIN INDUSTRY_KEYWORDS : KeywordScore(c, Lower(description)) > 0 }

\* the number of the category's keywords found in the description
Matches(c) == KeywordScore(c, Lower(description))

ReturnedCategories == { classified[i].category_id : i \in DOMAIN classified }

(***************************************************************************)
(* C6: classify_business returns 1 or 2 entries with pairwise different    *)
(* categories, in non-increasing order of confidence; no matched category  *)
(* that was left out has a higher confidence than a returned one; and the  *)
(* general-business category is returned, as the only entry, exactly when  *)
(* no category has a keyword occurring in the description.                 *)
(***************************************************************************)
C6_TopTwoRanked ==
    pc = "done" =>
        /\ Len(classified) \in {1, 2}
        /\ Len(classified) = 2 =>
                /\ classified[1].category_id # classified[2].category_id
                /\ classified[1].confidence_score >= classified[2].confidence_score
        /\ \A c \in MatchedCategories \ ReturnedCategories :
                \A i \in DOMAIN classified :
                    Min(Matches(c) * 15, 95) <= classified[i].confidence_score
        /\ MatchedCategories = {} <=>
                "GENERAL_BUSINESS" \in ReturnedCategories
        /\ "GENERAL_BUSINESS" \in ReturnedCategories => Len(classified) = 1
        /\ MatchedCategories # {} => ReturnedCategories \subseteq MatchedCategories

\* three categories match with different confidences; the weakest is left out
C6_Witness ==
    /\ pc = "done"
    /\ Cardinality(MatchedCategories) >= 3
    /\ Len(classified) = 2
    /\ classified[1].confidence_score > classified[2].confidence_score
    /\ \E c \in MatchedCategories \ ReturnedCategories :
            Min(Matches(c) * 15, 95) < classified[2].confidence_score

(***************************************************************************)
(* C7: a category returned for a keyword match has confidence              *)
(* min(15 x matched keywords, 95), hence between 15 and 95 (2 keywords     *)
(* give 30; 7 or more give 95, never 105); the general-business fallback   *)
(* has confidence exactly 50 and is the only entry that can have it.       *)
(***************************************************************************)
C7_ConfidenceFormula ==
    pc = "done" =>
        \A i \in DOMAIN classified :
            LET e == classified[i]
            IN  IF e.category_id = "GENERAL_BUSINESS"
                    THEN e.confidence_score = 50
                    ELSE /\ e.category_id \in MatchedCategories
                         /\ Matches(e.category_id) < 7 =>
                                e.confidence_score = 15 * Matches(e.category_id)
                         /\ Matches(e.category_id) >= 7 => e.confidence_score = 95
                         /\ e.confidence_score >= 15
                         /\ e.confidence_score <= 95
                         /\ e.confidence_score # 50

\* seven or more education keywords: 105 is capped to 95
C7_Witness ==
    /\ pc = "done"
    /\ Matches("EDUCATION") >= 7
    /\ classified[1] = [category_id |-> "EDUCATION", confidence_score |-> 95]

(***************************************************************************)
(* SpecClassifyCalls: classify_business called up to MaxCalls times, one   *)
(* call after the other, with descriptions out of CallDescriptions.  Every *)
(* call is recorded with its argument and its result; classified holds the *)
(* result of the most recent call when the next one starts.                *)
(***************************************************************************)
\* nothing, two education keywords, the education platform (education and
\* IT), service development (IT and service), a cafe (service)
CallDescriptions ==
    { Vocabulary[1], Vocabulary[2], Vocabulary[6], Vocabulary[8], Vocabulary[9] }

InitClassifyCalls ==
    /\ pc = "calls"
    /\ description = << >>
    /\ classified = << >>
    /\ calls = << >>
    /\ IdleSelect
    /\ IdleLevel
    /\ IdleOSD
    /\ IdleRisk
    /\ IdleService
    /\ IdleCost

ClassifyBusinessCall(business_description) ==
    /\ pc = "calls"
    /\ Len(calls) < MaxCalls
    /\ description' = business_description
    /\ \E result \in {classify_business(business_description)} :
          /\ classified' = result
          /\ calls' = Append(calls, [description |-> business_description,
                                     classified |-> result])
    /\ UNCHANGED <<pc, selectVars, levelVars, osdVars, riskVars, serviceVars, costVars>>

NextClassifyCalls ==
    \E business_description \in CallDescriptions :
        ClassifyBusinessCall(business_description)

SpecClassifyCalls == InitClassifyCalls /\ [][NextClassifyCalls]_vars

get_risk_level_inclusive(score) ==
    IF score <= 100 THEN "low"
    ELSE IF score <= 300 THEN "medium"
    ELSE IF score <= 600 THEN "high"
    ELSE "very_high"

get_risk_level(score) ==
    IF score < 100 THEN "low"
    ELSE IF score < 300 THEN "medium"
    ELSE IF score < 600 THEN "high"
    ELSE "very_high"

get_risk_grade(score) ==
    IF score < 50 THEN "A"
    ELSE IF score < 100 THEN "B"
    ELSE IF score < 200 THEN "C"
    ELSE IF score < 400 THEN "D"
    ELSE IF score < 700 THEN "E"
    ELSE "F"

\* models.py 119: an OSD risk score is at most 1000
MaxRiskScore == 1000

(***************************************************************************)
(* SpecLevel: get_risk_level and get_risk_grade applied to every risk      *)
(* score of the OSD scale.                                                 *)
(***************************************************************************)
InitLevel ==
    /\ pc = "call"
    /\ risk_score \in 1..MaxRiskScore
    /\ level = "None"
    /\ grade = "None"
    /\ IdleSelect
    /\ IdleClassify
    /\ IdleOSD
    /\ IdleRisk
    /\ IdleService
    /\ IdleCost

GetRiskLevelAndGrade ==
    /\ pc = "call"
    /\ level' = get_risk_level(risk_score)
    /\ grade' = get_risk_grade(risk_score)
    /\ pc' = "done"
    /\ UNCHANGED <<risk_score, selectVars, classifyVars, osdVars, riskVars, serviceVars, costVars>>

NextLevel == GetRiskLevelAndGrade

SpecLevel == InitLevel /\ [][NextLevel]_vars

(***************************************************************************)
(* C8: for every integer risk score in 1..1000 the level is low below 100, *)
(* medium for 100..299, high for 300..599, very_high from 600; the grade   *)
(* is A below 50, B for 50..99, C for 100..199, D for 200..399, E for      *)
(* 400..699, F from 700.  Lower bounds are inclusive, upper bounds         *)
(* exclusive: 99 is low/B, 100 medium/C, 299 medium, 300 high, 49 A, 50 B, *)
(* 336 high/D.                                                             *)
(***************************************************************************)
C8_LevelGradeBands ==
    pc = "done" /\ risk_score \in 1..1000 =>
        /\ level = "low"       <=> risk_score \in 1..99
        /\ level = "medium"    <=> risk_score \in 100..299
        /\ level = "high"      <=> risk_score \in 300..599
        /\ level = "very_high" <=> risk_score \in 600..1000
        /\ grade = "A" <=> risk_score \in 1..49
        /\ grade = "B" <=> risk_score \in 50..99
        /\ grade = "C" <=> risk_score \in 100..199
        /\ grade = "D" <=> risk_score \in 200..399
        /\ grade = "E" <=> risk_score \in 400..699
        /\ grade = "F" <=> risk_score \in 700..1000
        /\ risk_score = 99  => level = "low" /\ grade = "B"
        /\ risk_score = 100 => level = "medium" /\ grade = "C"
        /\ risk_score = 299 => level = "medium"
        /\ risk_score = 300 => level = "high"
        /\ risk_score = 49  => grade = "A"
        /\ risk_score = 50  => grade = "B"
        /\ risk_score = 336 => level = "high" /\ grade = "D"

\* a boundary score: 100 is the first medium score and the first C
C8_Witness ==
    /\ pc = "done"
    /\ risk_score = 100
    /\ level = "medium"
    /\ grade = "C"

(***************************************************************************)
(* OSDScore (app/models.py): a pydantic model.  Construction checks each   *)
(* integer field against the ge / le bounds of its Field and nothing else; *)
(* the description (free text) plays no part and is left out.              *)
(***************************************************************************)
OSD_GE == 1
OSD_LE == 10
RISK_SCORE_GE == 1
RISK_SCORE_LE == 1000

\* a check of the range of risk_score alone
OSDScoreRiskScoreValid(kw) ==
    kw.risk_score >= RISK_SCORE_GE /\ kw.risk_score <= RISK_SCORE_LE

\* the field constraints of OSDScore: True when pydantic accepts the values
OSDScoreFieldsValid(kw) ==
    /\ kw.occurrence >= OSD_GE /\ kw.occurrence <= OSD_LE
    /\ kw.severity   >= OSD_GE /\ kw.severity   <= OSD_LE
    /\ kw.detection  >= OSD_GE /\ kw.detection  <= OSD_LE
    /\ kw.risk_score >= RISK_SCORE_GE /\ kw.risk_score <= RISK_SCORE_LE

\* OSDScore(**kw): the object, or the ValidationError raised
OSDScore(kw) ==
    IF OSDScoreFieldsValid(kw)
    THEN [result |-> "OSDScore", value |-> kw]
    ELSE [result |-> "ValidationError"]

\* OSDRiskEngine.calculate_osd_score
calculate_osd_score(occurrence, severity, detection) ==
    occurrence * severity * detection

\* values tried for each axis: every legal value and one beyond each end
AxisInputs == (OSD_GE - 1)..(OSD_LE + 1)

\* values tried for risk_score besides the product of the axes
RiskScoreInputs == {0, 1, 14, 180, 500, 1000, 1001}

OSDInputs ==
    [occurrence : AxisInputs, severity : AxisInputs, detection : AxisInputs,
     risk_score : RiskScoreInputs]
    \cup
    { [occurrence |-> o, severity |-> s, detection |-> d,
       risk_score |-> calculate_osd_score(o, s, d)] :
          o \in AxisInputs, s \in AxisInputs, d \in AxisInputs }

(***************************************************************************)
(* SpecOSDScore: one OSDScore built from each combination of OSDInputs.    *)
(***************************************************************************)
InitOSDScore ==
    /\ pc = "call"
    /\ raw_osd \in OSDInputs
    /\ osd = [result |-> "pending"]
    /\ osd_values = "None"
    /\ corrected = "None"
    /\ IdleSelect
    /\ IdleClassify
    /\ IdleLevel
    /\ IdleRisk
    /\ IdleService
    /\ IdleCost

ConstructOSDScore ==
    /\ pc = "call"
    /\ osd' = OSDScore(raw_osd)
    /\ pc' = "done"
    /\ UNCHANGED <<raw_osd, osd_values, corrected, selectVars, classifyVars,
                   levelVars, riskVars, serviceVars, costVars>>

(***************************************************************************)
(* C10: every OSDScore that is built satisfies risk_score = occurrence x   *)
(* severity x detection, a construction with any other risk_score being    *)
(* rejected.  OSDScore has no such check: the four fields are validated    *)
(* one by one, so OSDScore(occurrence=1, severity=1, detection=1,          *)
(* risk_score=500) is built.                                               *)
(***************************************************************************)
C10_ProductEnforced ==
    pc = "done" /\ osd.result = "OSDScore" =>
        osd.value.risk_score =
            calculate_osd_score(osd.value.occurrence, osd.value.severity,
                                osd.value.detection)

(***************************************************************************)
(* OSDRiskEngine.calculate_overall_risk (app/risk_engine.py).              *)
(*                                                                         *)
(* The code works in binary floating point.  The model works in exact      *)
(* fractions: the weighted sum of n >= 2 scores is WeightedNum / WeightDen *)
(* with WeightDen = 10 * max(1, n - 3), the weights 0.4, 0.3, 0.2 being    *)
(* 4k, 3k, 2k over 10k and 0.1 / k being 1 over 10k (k = max(1, n - 3)).   *)
(* The double the code computes differs from the exact value by a few      *)
(* units in the last place, which shows in the result in two places only:  *)
(*   - int(avg_score_osd) when the exact sum is an integer: the computed   *)
(*     sum may lie just below it, and int() then yields one less.  With    *)
(*     sum() adding left to right (CPython up to 3.11) the scores 162,     *)
(*     108, 14 give 99.99999999999999; with the compensated sum() of       *)
(*     CPython 3.12 they give 100.0.  With two scores the sum of the two   *)
(*     products is exact whenever it is an integer.                        *)
(*   - round(avg_score_100, 2) when the exact value lies half way between  *)
(*     two hundredths: the double lies on either side.                     *)
(* fp_error records which way the arithmetic went; both ways are taken     *)
(* wherever the interpreter and the operands decide.                       *)
(*                                                                         *)
(* overall_score is counted in hundredths: 26.49 is 2649.                  *)
(***************************************************************************)

\* the observations tried: the three of the fallback report, three whose
\* weighted sum is exactly 100, and the largest possible one
SampleOSDScores ==
    { [occurrence |-> 7,  severity |-> 8,  detection |-> 6,  risk_score |-> 336],
      [occurrence |-> 5,  severity |-> 9,  detection |-> 7,  risk_score |-> 315],
      [occurrence |-> 6,  severity |-> 6,  detection |-> 5,  risk_score |-> 180],
      [occurrence |-> 3,  severity |-> 6,  detection |-> 9,  risk_score |-> 162],
      [occurrence |-> 2,  severity |-> 6,  detection |-> 9,  risk_score |-> 108],
      [occurrence |-> 1,  severity |-> 2,  detection |-> 7,  risk_score |-> 14],
      [occurrence |-> 10, severity |-> 10, detection |-> 10, risk_score |-> 1000] }

\* [r.risk_score for r in osd_scores]
RiskScores(scores) == [i \in 1..Len(scores) |-> scores[i].risk_score]

\* the list unsorted, as handed in
Unsorted(s) == s

\* sorted(..., reverse=True) on integers
RECURSIVE SortDescending(_)
SortDescending(s) ==
    IF s = << >> THEN << >>
    ELSE LET rest == SortDescending(Tail(s))
             before == SelectSeq(rest, LAMBDA x : x >= Head(s))
             after  == SelectSeq(rest, LAMBDA x : x < Head(s))
         IN  before \o <<Head(s)>> \o after

\* max(1, len(sorted_scores) - 3)
ResidualCount(n) == IF n - 3 > 1 THEN n - 3 ELSE 1

\* the denominator the weights of a list of n >= 2 scores are written over
WeightDen(n) == 10 * ResidualCount(n)

\* a residual weight of 0.1 for each score after the third
WeightNumUndivided(i, n) ==
    IF i = 1 THEN 4 * ResidualCount(n)
    ELSE IF i = 2 THEN 3 * ResidualCount(n)
    ELSE IF i = 3 THEN 2 * ResidualCount(n)
    ELSE ResidualCount(n)

\* weights[i] * WeightDen(n): [0.4, 0.3, 0.2] + [0.1 / max(1, n - 3)] * (n - 3)
WeightNum(i, n) ==
    IF i = 1 THEN 4 * ResidualCount(n)
    ELSE IF i = 2 THEN 3 * ResidualCount(n)
    ELSE IF i = 3 THEN 2 * ResidualCount(n)
    ELSE 1

\* sum(s * w for s, w in zip(sorted_scores, weights)) * WeightDen(n)
RECURSIVE WeightedNum(_, _)
WeightedNum(sorted_scores, i) ==
    IF i > Len(sorted_scores) THEN 0
    ELSE sorted_scores[i] * WeightNum(i, Len(sorted_scores))
         + WeightedNum(sorted_scores, i + 1)

\* avg_score_osd as the fraction num / den
AvgScoreOSD(scores) ==
    LET sorted_scores == SortDescending(RiskScores(scores))
    IN  IF Len(sorted_scores) = 1
        THEN [num |-> sorted_scores[1], den |-> 1]
        ELSE [num |-> WeightedNum(sorted_scores, 1),
              den |-> WeightDen(Len(sorted_scores))]

\* the computed sum may lie below the exact one where this matters: three
\* products or more were added and the exact sum avg is an integer
SumMayLieBelow(n, avg) == n >= 3 /\ avg.num % avg.den = 0

\* avg_score_100 lies exactly half way between two hundredths
RoundingTie(avg) == (20 * avg.num + avg.den) % (2 * avg.den) = 0

\* the ways the double arithmetic can go on these operands
FPErrors(scores) ==
    IF scores = << >> THEN { [sum_below |-> FALSE, tie_up |-> FALSE] }
    ELSE LET avg == AvgScoreOSD(scores)
         IN  [sum_below : IF SumMayLieBelow(Len(scores), avg)
                             THEN BOOLEAN ELSE {FALSE},
              tie_up    : IF RoundingTie(avg) THEN BOOLEAN ELSE {FALSE}]

\* int(avg_score_osd)
IntAvgScoreOSD(avg, err) ==
    (avg.num \div avg.den) - (IF err.sum_below THEN 1 ELSE 0)

\* round(avg_score_100, 2), in hundredths
RoundAvgScore100(avg, err) ==
    LET half_up == (20 * avg.num + avg.den) \div (2 * avg.den)
    IN  IF RoundingTie(avg) /\ ~err.tie_up THEN half_up - 1 ELSE half_up

calculate_overall_risk(scores, err) ==
    IF scores = << >>
    THEN [overall_score |-> 0, level |-> "low", grade |-> "A"]
    ELSE LET avg == AvgScoreOSD(scores)
             truncated == IntAvgScoreOSD(avg, err)
         IN  [overall_score |-> RoundAvgScore100(avg, err),
              level |-> get_risk_level(truncated),
              grade |-> get_risk_grade(truncated)]

(***************************************************************************)
(* SpecRisk: calculate_overall_risk applied to every list of at most       *)
(* MaxObservations of the SampleOSDScores.                                 *)
(***************************************************************************)
InitRisk ==
    /\ pc = "call"
    /\ osd_scores \in SeqUpTo(SampleOSDScores, MaxObservations)
    /\ fp_error = "None"
    /\ overall = "None"
    /\ IdleSelect
    /\ IdleClassify
    /\ IdleLevel
    /\ IdleOSD
    /\ IdleService
    /\ IdleCost

CalculateOverallRisk ==
    /\ pc = "call"
    /\ \E err \in FPErrors(osd_scores) :
          /\ fp_error' = err
          /\ overall' = calculate_overall_risk(osd_scores, err)
    /\ pc' = "done"
    /\ UNCHANGED <<osd_scores, selectVars, classifyVars, levelVars, osdVars, serviceVars, costVars>>

NextRisk == CalculateOverallRisk

SpecRisk == InitRisk /\ [][NextRisk]_vars

\* the i-th largest of the scores s, found by counting and not by sorting
KthLargest(s, i) ==
    CHOOSE v \in { s[j] : j \in DOMAIN s } :
        /\ Cardinality({ j \in DOMAIN s : s[j] > v }) < i
        /\ Cardinality({ j \in DOMAIN s : s[j] >= v }) >= i

\* the stated aggregate of n >= 2 scores times 10 * k, k = n - 3 when n > 3
\* and 1 otherwise: 0.4, 0.3, 0.2 for the three largest, 0.1 / (n - 3) after
RECURSIVE StatedAggregateNum(_, _)
StatedAggregateNum(s, i) ==
    LET n == Len(s)
        k == IF n > 3 THEN n - 3 ELSE 1
    IN  IF i > n THEN 0
        ELSE (IF i <= 3 THEN (5 - i) * k ELSE 1) * KthLargest(s, i)
             + StatedAggregateNum(s, i + 1)

StatedAggregateDen(s) == 10 * (IF Len(s) > 3 THEN Len(s) - 3 ELSE 1)

\* the list with the elements at i and i + 1 exchanged
SwapAdjacent(s, i) ==
    [j \in DOMAIN s |-> IF j = i THEN s[i + 1] ELSE IF j = i + 1 THEN s[i] ELSE s[j]]

(***************************************************************************)
(* C4: the aggregate of one observation is its risk_score; the aggregate   *)
(* of n >= 2 observations is the sum of the risk_scores in descending      *)
(* order weighted 0.4, 0.3, 0.2 and 0.1 / (n - 3) for each one after the   *)
(* third; overall_score is the aggregate divided by 10 and rounded to two  *)
(* decimals, that is, the hundredth nearest to it (either neighbour when   *)
(* it lies half way); scores 336, 315, 180 give 264.9 and 26.49; and the   *)
(* result is the same when two neighbouring observations are exchanged,    *)
(* hence for every order of the observations.                              *)
(***************************************************************************)
C4_WeightedAggregate ==
    pc = "done" /\ osd_scores # << >> =>
        LET s == RiskScores(osd_scores)
            n == Len(s)
            H == overall.overall_score
            num == IF n = 1 THEN s[1] ELSE StatedAggregateNum(s, 1)
            den == IF n = 1 THEN 1 ELSE StatedAggregateDen(s)
            diff == H * den - 10 * num
        IN  /\ 2 * diff <= den /\ 2 * diff >= 0 - den
            /\ n = 1 => H = 10 * s[1]
            /\ n <= 3 => H * den = 10 * num
            /\ (\E i, j, l \in 1..3 : {i, j, l} = {1, 2, 3} /\ n = 3
                   /\ s[i] = 336 /\ s[j] = 315 /\ s[l] = 180)
               => num = 2649 /\ den = 10 /\ H = 2649
            /\ \A i \in 1..(n - 1) :
                  calculate_overall_risk(SwapAdjacent(osd_scores, i), fp_error)
                      = overall

\* the documented example, handed in out of order: 180, 336, 315
C4_Witness ==
    /\ pc = "done"
    /\ RiskScores(osd_scores) = <<180, 336, 315>>
    /\ overall.overall_score = 2649

(***************************************************************************)
(* C5: level and grade are get_risk_level and get_risk_grade of the        *)
(* weighted sum truncated to an integer: 264.9 gives 264, medium and D,    *)
(* and a weighted sum of exactly 100 gives 100, medium and C.  The code    *)
(* truncates the double it computed: for the scores 162, 108, 14 CPython   *)
(* up to 3.11 adds 64.80000000000001 + 32.4 + 2.8000000000000003 to        *)
(* 99.99999999999999, and int() of it is 99: low and B.                    *)
(***************************************************************************)
C5_LevelFromTruncatedSum ==
    pc = "done" /\ osd_scores # << >> =>
        LET s == RiskScores(osd_scores)
            num == IF Len(s) = 1 THEN s[1] ELSE StatedAggregateNum(s, 1)
            den == IF Len(s) = 1 THEN 1 ELSE StatedAggregateDen(s)
        IN  /\ overall.level = get_risk_level(num \div den)
            /\ overall.grade = get_risk_grade(num \div den)

\* the documented example: 264.9 is truncated to 264, medium and D
C5_Witness ==
    /\ pc = "done"
    /\ RiskScores(osd_scores) = <<336, 315, 180>>
    /\ overall.level = "medium"
    /\ overall.grade = "D"

(***************************************************************************)
(* C9: an empty list of observations gives (0, low, A); a list that is     *)
(* not empty, with every risk_score in 1..1000, gives an overall_score     *)
(* from 0 to 100 (0 to 10000 hundredths).                                  *)
(***************************************************************************)
C9_OverallScoreRange ==
    pc = "done" =>
        /\ osd_scores = << >> =>
              overall = [overall_score |-> 0, level |-> "low", grade |-> "A"]
        /\ (osd_scores # << >>
              /\ \A i \in DOMAIN osd_scores : osd_scores[i].risk_score \in 1..1000)
           => overall.overall_score >= 0 /\ overall.overall_score <= 10000

\* more than three observations, all of the largest score: exactly 100
C9_Witness ==
    /\ pc = "done"
    /\ Len(osd_scores) > 3
    /\ \A i \in DOMAIN osd_scores : osd_scores[i].risk_score = 1000
    /\ overall.overall_score = 10000

(***************************************************************************)
(* SpecOSDScore, continued: what generate_final_report does with the       *)
(* observation it built (service.py, lines 198 to 209).  The list          *)
(* comprehension of line 198 raises when a construction fails, so only an  *)
(* observation that was built is appended to all_osd_scores and scored.    *)
(***************************************************************************)
ScoreBuiltObservation ==
    /\ pc = "done"
    /\ osd.result = "OSDScore"
    /\ osd_scores' = << osd.value >>
    /\ \E err \in FPErrors(<< osd.value >>) :
          /\ fp_error' = err
          /\ overall' = calculate_overall_risk(<< osd.value >>, err)
    /\ pc' = "scored"
    /\ UNCHANGED <<osdVars, selectVars, classifyVars, levelVars, serviceVars, costVars>>

NextOSDScore == ConstructOSDScore \/ ScoreBuiltObservation

SpecOSDScore == InitOSDScore /\ [][NextOSDScore]_vars

AxisInRange(v) == v >= 1 /\ v <= 10

(***************************************************************************)
(* C11: an observation whose occurrence, severity or detection lies        *)
(* outside 1..10 is rejected when it is constructed, and every observation *)
(* that reaches scoring has its three axes within 1..10.                   *)
(***************************************************************************)
C11_AxesOutOfRangeRejected ==
    /\ pc # "call" /\ ~( /\ AxisInRange(raw_osd.occurrence)
                         /\ AxisInRange(raw_osd.severity)
                         /\ AxisInRange(raw_osd.detection) )
       => osd.result = "ValidationError" /\ osd_scores = << >>
    /\ \A i \in DOMAIN osd_scores :
          /\ AxisInRange(osd_scores[i].occurrence)
          /\ AxisInRange(osd_scores[i].severity)
          /\ AxisInRange(osd_scores[i].detection)

\* a severity of 11 with every other field in range: rejected
C11_Witness ==
    /\ pc = "done"
    /\ raw_osd.severity = 11
    /\ AxisInRange(raw_osd.occurrence)
    /\ AxisInRange(raw_osd.detection)
    /\ raw_osd.risk_score = 500
    /\ osd.result = "ValidationError"

(***************************************************************************)
(* SpecSelect: select_analysis_methods applied to every list of at most    *)
(* MaxCategories category ids.                                             *)
(***************************************************************************)
InitSelect ==
    /\ pc = "call"
    /\ categories \in SeqUpTo(IndustryCategorySet, MaxCategories)
    /\ selected = << >>
    /\ IdleClassify
    /\ IdleLevel
    /\ IdleOSD
    /\ IdleRisk
    /\ IdleService
    /\ IdleCost

SelectAnalysisMethods ==
    /\ pc = "call"
    /\ selected' = select_analysis_methods(categories)
    /\ pc' = "done"
    /\ UNCHANGED <<categories, classifyVars, levelVars, osdVars, riskVars, serviceVars, costVars>>

NextSelect == SelectAnalysisMethods

SpecSelect == InitSelect /\ [][NextSelect]_vars



(***************************************************************************)
(* C1: whatever the list of classified categories (empty, one, two, more,  *)
(* the same category twice), select_analysis_methods returns exactly two   *)
(* analysis methods and the two differ.                                    *)
(***************************************************************************)
C1_ExactlyTwoDistinct ==
    pc = "done" =>
        /\ Len(selected) = 2
        /\ selected[1] # selected[2]
        /\ selected[1] \in AnalysisMethod
        /\ selected[2] \in AnalysisMethod

\* the same category twice: the second pick has to skip the method already taken
C1_Witness ==
    /\ pc = "done"
    /\ Len(categories) >= 2
    /\ categories[1] = categories[2]
    /\ Len(selected) = 2

(***************************************************************************)
(* OSDRiskEngine.apply_industry_correction                                 *)
(* The factors are kept in tenths.  round() of the double product agrees   *)
(* with the exact product rounded half to even for every axis in 1..10 and *)
(* every factor of the table.                                              *)
(***************************************************************************)
FactorDen == 10

INDUSTRY_CORRECTION ==
    [c \in IndustryCategorySet |->
        CASE c = "IT_STARTUP"         -> [O |-> 12, S |-> 11, D |-> 9]
          [] c = "EDUCATION"          -> [O |-> 9,  S |-> 10, D |-> 11]
          [] c = "MANUFACTURING"      -> [O |-> 10, S |-> 13, D |-> 10]
          [] c = "MARKETING"          -> [O |-> 11, S |-> 9,  D |-> 10]
          [] c = "FINANCE"            -> [O |-> 8,  S |-> 15, D |-> 12]
          [] c = "SERVICE"            -> [O |-> 10, S |-> 10, D |-> 10]
          [] c = "PROJECT_MANAGEMENT" -> [O |-> 11, S |-> 12, D |-> 9]
          [] c = "GENERAL_BUSINESS"   -> [O |-> 10, S |-> 10, D |-> 10]]

\* INDUSTRY_CORRECTION.get(industry, {"O": 1.0, "S": 1.0, "D": 1.0})
Correction(industry_category) ==
    IF industry_category \in DOMAIN INDUSTRY_CORRECTION
    THEN INDUSTRY_CORRECTION[industry_category]
    ELSE [O |-> FactorDen, S |-> FactorDen, D |-> FactorDen]

\* the fraction num / den cut off at the decimal point: a mutation
round_down(num, den) == num \div den

\* round(num / den) of a non-negative fraction: the nearest integer, the
\* even one of the two when the fraction lies halfway
round(num, den) ==
    LET q == num \div den
        r == num % den
    IN  IF 2 * r > den \/ (2 * r = den /\ q % 2 = 1) THEN q + 1 ELSE q

apply_industry_correction(values, industry_category) ==
    LET correction == Correction(industry_category)
    IN  [O |-> Min(10, round(values.O * correction.O, FactorDen)),
         S |-> Min(10, round(values.S * correction.S, FactorDen)),
         D |-> Min(10, round(values.D * correction.D, FactorDen))]

(***************************************************************************)
(* CostAnalysisEngine (app/risk_engine.py).                                *)
(*                                                                         *)
(* Amounts are whole won.  The ratios of the code are decimal fractions    *)
(* (0.25, 0.6, risk_score / 1000.0); the model keeps them as numerator and *)
(* denominator and computes amount * numerator / denominator exactly, for  *)
(* investments that are multiples of 10000 won.  The floats of the code    *)
(* differ from these amounts by rounding error only (below one won).       *)
(* An absent investment (None) is << >>, an amount n is <<n>>.             *)
(* The items of a cost table carry English names here.                     *)
(***************************************************************************)
INDUSTRY_COST_STRUCTURE ==
    [ IT_STARTUP |->
        << [item |-> "development", ratio |-> 40], [item |-> "design", ratio |-> 10],
           [item |-> "pm", ratio |-> 10], [item |-> "server", ratio |-> 10],
           [item |-> "marketing", ratio |-> 20], [item |-> "other", ratio |-> 10] >>,
      EDUCATION |->
        << [item |-> "content", ratio |-> 30], [item |-> "instructors", ratio |-> 25],
           [item |-> "platform", ratio |-> 15], [item |-> "marketing", ratio |-> 20],
           [item |-> "other", ratio |-> 10] >>,
      MANUFACTURING |->
        << [item |-> "equipment", ratio |-> 30], [item |-> "materials", ratio |-> 25],
           [item |-> "labour", ratio |-> 20], [item |-> "maintenance", ratio |-> 15],
           [item |-> "other", ratio |-> 10] >>,
      SERVICE |->
        << [item |-> "rent", ratio |-> 25], [item |-> "labour", ratio |-> 30],
           [item |-> "ingredients", ratio |-> 20], [item |-> "marketing", ratio |-> 15],
           [item |-> "other", ratio |-> 10] >>,
      MARKETING |->
        << [item |-> "advertising", ratio |-> 40], [item |-> "creative", ratio |-> 20],
           [item |-> "labour", ratio |-> 20], [item |-> "licences", ratio |-> 10],
           [item |-> "other", ratio |-> 10] >>,
      FINANCE |->
        << [item |-> "system", ratio |-> 30], [item |-> "labour", ratio |-> 25],
           [item |-> "compliance", ratio |-> 20], [item |-> "security", ratio |-> 15],
           [item |-> "other", ratio |-> 10] >>,
      PROJECT_MANAGEMENT |->
        << [item |-> "labour", ratio |-> 35], [item |-> "equipment_rent", ratio |-> 25],
           [item |-> "materials", ratio |-> 20], [item |-> "administration", ratio |-> 10],
           [item |-> "other", ratio |-> 10] >>,
      GENERAL_BUSINESS |->
        << [item |-> "labour", ratio |-> 30], [item |-> "operation", ratio |-> 25],
           [item |-> "marketing", ratio |-> 20], [item |-> "system", ratio |-> 15],
           [item |-> "other", ratio |-> 10] >> ]

\* the denominators of the ratios: hundredths in the cost tables, tenths for
\* the impact ratio and the capex/opex split, thousandths for the probability
RatioDen == 100
TenthsDen == 10
ProbabilityDen == 1000

\* amount * numerator / denominator
Share(amount, numerator, denominator) == (amount \div denominator) * numerator

\* INDUSTRY_COST_STRUCTURE.get(industry) without the default: a mutation
CostStructureNoDefault(industry_category) ==
    IF industry_category \in DOMAIN INDUSTRY_COST_STRUCTURE
    THEN INDUSTRY_COST_STRUCTURE[industry_category]
    ELSE << >>

\* INDUSTRY_COST_STRUCTURE.get(industry, the table of GENERAL_BUSINESS)
CostStructure(industry_category) ==
    IF industry_category \in DOMAIN INDUSTRY_COST_STRUCTURE
    THEN INDUSTRY_COST_STRUCTURE[industry_category]
    ELSE INDUSTRY_COST_STRUCTURE["GENERAL_BUSINESS"]

\* CostAnalysisEngine.estimate_cost_breakdown; None * ratio raises TypeError
estimate_cost_breakdown(total_investment, industry_category) ==
    LET structure == CostStructure(industry_category)
    IN  IF total_investment = << >> /\ structure # << >>
        THEN [result |-> "TypeError"]
        ELSE [result |-> "dict",
              value |-> [i \in DOMAIN structure |->
                           [item |-> structure[i].item,
                            amount |-> Share(total_investment[1],
                                             structure[i].ratio, RatioDen)]]]

\* min(1.0, risk_score / 1000.0), in thousandths
Probability(score) ==
    IF score \div ProbabilityDen >= 1 THEN ProbabilityDen ELSE score

\* the impact ratio with the ranges one severity higher: a mutation
SeverityImpactShifted(severity) ==
    IF severity \in 2..4 THEN 1
    ELSE IF severity \in 5..7 THEN 3
    ELSE IF severity \in 8..11 THEN 6
    ELSE 3

\* the impact ratio of a severity, in tenths: range(1, 4), range(4, 7),
\* range(7, 11), and the default
SeverityImpact(severity) ==
    IF severity \in 1..3 THEN 1
    ELSE IF severity \in 4..6 THEN 3
    ELSE IF severity \in 7..10 THEN 6
    ELSE 3

\* CostAnalysisEngine.calculate_risk_impact_cost:
\* probability * impact_ratio * total_investment
calculate_risk_impact_cost(osd_score, total_investment) ==
    IF total_investment = << >>
    THEN [result |-> "TypeError"]
    ELSE [result |-> "float",
          value |-> Probability(osd_score.risk_score)
                    * SeverityImpact(osd_score.severity)
                    * (total_investment[1] \div (ProbabilityDen * TenthsDen))]

\* the largest expected_loss instead of their sum: a mutation
RECURSIVE MaxExpectedLoss(_)
MaxExpectedLoss(loss_by_risk) ==
    IF loss_by_risk = << >> THEN 0
    ELSE LET rest == MaxExpectedLoss(Tail(loss_by_risk))
         IN  IF Head(loss_by_risk).expected_loss > rest
             THEN Head(loss_by_risk).expected_loss ELSE rest

\* sum(item["expected_loss"] for item in loss_by_risk)
RECURSIVE SumExpectedLoss(_)
SumExpectedLoss(loss_by_risk) ==
    IF loss_by_risk = << >> THEN 0
    ELSE Head(loss_by_risk).expected_loss + SumExpectedLoss(Tail(loss_by_risk))

\* calculate_total_expected_loss on observations that went through
\* apply_industry_correction first: a mutation
calculate_total_expected_loss_corrected(scores, total_investment, industry_category) ==
    LET corrected_scores ==
            [i \in DOMAIN scores |->
                LET c == apply_industry_correction(
                             [O |-> scores[i].occurrence, S |-> scores[i].severity,
                              D |-> scores[i].detection], industry_category)
                IN  [occurrence |-> c.O, severity |-> c.S, detection |-> c.D,
                     risk_score |-> c.O * c.S * c.D]]
        cost_details == estimate_cost_breakdown(total_investment, industry_category)
    IN  IF cost_details.result # "dict" THEN [result |-> cost_details.result]
        ELSE IF total_investment = << >> THEN [result |-> "TypeError"]
        ELSE LET capex == Share(total_investment[1], 6, TenthsDen)
                 opex == Share(total_investment[1], 4, TenthsDen)
                 loss_by_risk ==
                     [i \in DOMAIN corrected_scores |->
                        [osd_score |-> corrected_scores[i].risk_score,
                         probability |-> Probability(corrected_scores[i].risk_score),
                         expected_loss |->
                            calculate_risk_impact_cost(corrected_scores[i], total_investment).value]]
                 probability_weighted_loss == SumExpectedLoss(loss_by_risk)
             IN  [result |-> "dict",
                  value |-> [total_expected_loss |-> probability_weighted_loss,
                             cost_breakdown |->
                                [capex |-> capex, opex |-> opex,
                                 risk_impact_cost |-> probability_weighted_loss,
                                 details |-> cost_details.value],
                             loss_by_risk |-> loss_by_risk,
                             probability_weighted_loss |-> probability_weighted_loss]]

\* CostAnalysisEngine.calculate_total_expected_loss
calculate_total_expected_loss(scores, total_investment, industry_category) ==
    LET cost_details == estimate_cost_breakdown(total_investment, industry_category)
    IN  IF cost_details.result # "dict" THEN [result |-> cost_details.result]
        ELSE IF total_investment = << >> THEN [result |-> "TypeError"]
        ELSE LET capex == Share(total_investment[1], 6, TenthsDen)
                 opex == Share(total_investment[1], 4, TenthsDen)
                 loss_by_risk ==
                     [i \in DOMAIN scores |->
                        [osd_score |-> scores[i].risk_score,
                         probability |-> Probability(scores[i].risk_score),
                         expected_loss |->
                            calculate_risk_impact_cost(scores[i], total_investment).value]]
                 probability_weighted_loss == SumExpectedLoss(loss_by_risk)
             IN  [result |-> "dict",
                  value |-> [total_expected_loss |-> probability_weighted_loss,
                             cost_breakdown |->
                                [capex |-> capex, opex |-> opex,
                                 risk_impact_cost |-> probability_weighted_loss,
                                 details |-> cost_details.value],
                             loss_by_risk |-> loss_by_risk,
                             probability_weighted_loss |-> probability_weighted_loss]]

\* the observations tried: the three of the fallback report, the largest
\* score, one for each end of the three severity ranges, and two whose
\* severity was assigned after construction (assignment is not validated)
CostObservations ==
    { [occurrence |-> 7, severity |-> 8, detection |-> 6, risk_score |-> 336],
      [occurrence |-> 10, severity |-> 10, detection |-> 10, risk_score |-> 1000],
      [occurrence |-> 5, severity |-> 1, detection |-> 4, risk_score |-> 20],
      [occurrence |-> 5, severity |-> 3, detection |-> 4, risk_score |-> 60],
      [occurrence |-> 5, severity |-> 4, detection |-> 4, risk_score |-> 80],
      [occurrence |-> 5, severity |-> 6, detection |-> 4, risk_score |-> 120],
      [occurrence |-> 5, severity |-> 7, detection |-> 4, risk_score |-> 140],
      [occurrence |-> 5, severity |-> 11, detection |-> 4, risk_score |-> 100],
      [occurrence |-> 5, severity |-> 0, detection |-> 4, risk_score |-> 100] }

\* the investments tried
TotalInvestments == { << >>, << 10000 >>, << 50000000 >>, << 100000000 >> }

\* the industries tried: every category, and a value no table is kept for
Industries == IndustryCategorySet \cup {"None"}

InitCost ==
    /\ pc = "call"
    /\ osd_scores \in SeqUpTo(CostObservations, MaxLosses)
    /\ investment_amount \in TotalInvestments
    /\ industry \in Industries
    /\ cost_analysis = [result |-> "pending"]
    /\ fp_error = "None"
    /\ overall = "None"
    /\ IdleSelect
    /\ IdleClassify
    /\ IdleLevel
    /\ IdleOSD
    /\ IdleService

CalculateTotalExpectedLoss ==
    /\ pc = "call"
    /\ cost_analysis' = calculate_total_expected_loss(osd_scores, investment_amount,
                                                      industry)
    /\ pc' = "done"
    /\ UNCHANGED <<investment_amount, industry, selectVars, classifyVars,
                   levelVars, osdVars, riskVars, serviceVars>>

NextCost == CalculateTotalExpectedLoss

SpecCost == InitCost /\ [][NextCost]_vars

\* the sum of a list of amounts
RECURSIVE SumSeq(_)
SumSeq(amounts) ==
    IF amounts = << >> THEN 0 ELSE Head(amounts) + SumSeq(Tail(amounts))

\* probability * impact ratio * investment as documented: the probability is
\* risk_score / 1000 and at most 1, the ratio 0.1, 0.3 or 0.6
StatedImpactCost(observation, amount) ==
    LET perMille == IF observation.risk_score > 1000 THEN 1000
                    ELSE observation.risk_score
        tenths == CASE observation.severity \in {1, 2, 3} -> 1
                    [] observation.severity \in {4, 5, 6} -> 3
                    [] observation.severity \in {7, 8, 9, 10} -> 6
                    [] OTHER -> 3
    IN  (perMille * tenths * (amount \div 1000)) \div 10

(***************************************************************************)
(* C15: calculate_risk_impact_cost is probability * impact_ratio *         *)
(* investment, the probability being min(1, risk_score / 1000) and the     *)
(* ratio 0.1 for a severity of 1..3, 0.3 for 4..6, 0.6 for 7..10 and 0.3   *)
(* for any other severity; with an investment of 100,000,000 the           *)
(* observation (7, 8, 6, 336) costs 20,160,000.                            *)
(***************************************************************************)
C15_RiskImpactCost ==
    (pc = "done" /\ cost_analysis.result = "dict") =>
        /\ Len(cost_analysis.value.loss_by_risk) = Len(osd_scores)
        /\ \A i \in DOMAIN osd_scores :
              /\ cost_analysis.value.loss_by_risk[i].expected_loss
                    = StatedImpactCost(osd_scores[i], investment_amount[1])
              /\ ( /\ investment_amount = << 100000000 >>
                   /\ osd_scores[i].severity = 8
                   /\ osd_scores[i].risk_score = 336 )
                 => cost_analysis.value.loss_by_risk[i].expected_loss = 20160000

\* the documented example next to an observation whose severity is outside
\* every range
C15_Witness ==
    /\ pc = "done"
    /\ investment_amount = << 100000000 >>
    /\ Len(osd_scores) = 2
    /\ osd_scores[1].severity = 8 /\ osd_scores[1].risk_score = 336
    /\ osd_scores[2].severity = 11
    /\ cost_analysis.result = "dict"
    /\ cost_analysis.value.loss_by_risk[1].expected_loss = 20160000
    /\ cost_analysis.value.loss_by_risk[2].expected_loss = 3000000

(***************************************************************************)
(* C16: probability_weighted_loss of calculate_total_expected_loss is the  *)
(* plain sum of calculate_risk_impact_cost over the observations, and so   *)
(* is total_expected_loss; the sum is not capped at the investment.        *)
(***************************************************************************)
C16_PlainSumOfImpactCosts ==
    (pc = "done" /\ cost_analysis.result = "dict") =>
        LET total == SumSeq([i \in DOMAIN osd_scores |->
                               StatedImpactCost(osd_scores[i], investment_amount[1])])
        IN  /\ cost_analysis.value.probability_weighted_loss = total
            /\ cost_analysis.value.total_expected_loss = total

\* two observations of risk_score 1000 and severity 10: 1.2 times the
\* investment
C16_Witness ==
    /\ pc = "done"
    /\ investment_amount = << 100000000 >>
    /\ Len(osd_scores) = 2
    /\ \A i \in 1..2 : osd_scores[i].risk_score = 1000 /\ osd_scores[i].severity = 10
    /\ cost_analysis.result = "dict"
    /\ cost_analysis.value.probability_weighted_loss = 120000000
    /\ cost_analysis.value.probability_weighted_loss > investment_amount[1]

(***************************************************************************)
(* C17: for each of the eight category tables and every investment the    *)
(* amounts of estimate_cost_breakdown add up to the investment (the ratios *)
(* of each table sum to 1); for a category without a table the table of    *)
(* GENERAL_BUSINESS is used and nothing is raised.                         *)
(***************************************************************************)
C17_BreakdownAddsUp ==
    /\ \A c \in DOMAIN INDUSTRY_COST_STRUCTURE :
          SumSeq([i \in DOMAIN INDUSTRY_COST_STRUCTURE[c] |->
                    INDUSTRY_COST_STRUCTURE[c][i].ratio]) = 100
    /\ IndustryCategorySet \subseteq DOMAIN INDUSTRY_COST_STRUCTURE
    /\ (pc = "done" /\ investment_amount # << >>) =>
          /\ cost_analysis.result = "dict"
          /\ LET details == cost_analysis.value.cost_breakdown.details
             IN  /\ SumSeq([i \in DOMAIN details |-> details[i].amount])
                      = investment_amount[1]
                 /\ industry \notin IndustryCategorySet =>
                      /\ \A i \in DOMAIN details :
                            details[i].item
                              = INDUSTRY_COST_STRUCTURE["GENERAL_BUSINESS"][i].item
                      /\ Len(details) = Len(INDUSTRY_COST_STRUCTURE["GENERAL_BUSINESS"])

\* an industry no table is kept for
C17_Witness ==
    /\ pc = "done"
    /\ industry = "None"
    /\ investment_amount = << 50000000 >>
    /\ cost_analysis.result = "dict"
    /\ cost_analysis.value.cost_breakdown.details[1] = [item |-> "labour", amount |-> 15000000]
    /\ cost_analysis.value.cost_breakdown.details[2] = [item |-> "operation", amount |-> 12500000]

(***************************************************************************)
(* SpecCorrection: one apply_industry_correction for every occurrence,     *)
(* severity and detection of 1..10 and every industry, the absent one      *)
(* included.                                                               *)
(***************************************************************************)
AxisValues == 1..10

InitCorrection ==
    /\ pc = "call"
    /\ osd_values \in [O : AxisValues, S : AxisValues, D : AxisValues]
    /\ industry \in Industries
    /\ corrected = "None"
    /\ raw_osd = "None"
    /\ osd = "None"
    /\ investment_amount = << >>
    /\ cost_analysis = "None"
    /\ IdleSelect
    /\ IdleClassify
    /\ IdleLevel
    /\ IdleRisk
    /\ IdleService

ApplyIndustryCorrection ==
    /\ pc = "call"
    /\ corrected' = apply_industry_correction(osd_values, industry)
    /\ pc' = "done"
    /\ UNCHANGED <<osd_values, raw_osd, osd, selectVars, classifyVars, levelVars,
                   riskVars, serviceVars, costVars>>

NextCorrection == ApplyIndustryCorrection

SpecCorrection == InitCorrection /\ [][NextCorrection]_vars

(***************************************************************************)
(* C24: for every occurrence, severity and detection in 1..10 and every    *)
(* industry, each corrected axis is the axis times the factor of the       *)
(* industry, rounded to a nearest integer and capped at 10; it lies in     *)
(* 1..10, so no axis is rounded down to 0; an industry without an entry in *)
(* the table leaves the three values as they were.  Where the product lies *)
(* halfway between two integers (4.5, 6.5) both are nearest; the code      *)
(* takes the even one.                                                     *)
(***************************************************************************)
IsNearest(r, num, den) ==
    /\ 2 * (den * r - num) <= den
    /\ 2 * (num - den * r) <= den

C24_CorrectionRoundedAndCapped ==
    pc = "done" =>
        /\ \A axis \in {"O", "S", "D"} :
              /\ \E r \in 0..20 :
                    /\ IsNearest(r, osd_values[axis] * Correction(industry)[axis], FactorDen)
                    /\ corrected[axis] = Min(10, r)
              /\ corrected[axis] \in 1..10
        /\ industry \notin DOMAIN INDUSTRY_CORRECTION => corrected = osd_values

\* finance: 1 x 0.8 = 0.8 gives 1, 3 x 1.5 = 4.5 gives 4, 9 x 1.2 = 10.8 is
\* capped at 10
C24_Witness ==
    /\ pc = "done"
    /\ industry = "FINANCE"
    /\ osd_values = [O |-> 1, S |-> 3, D |-> 9]
    /\ corrected = [O |-> 1, S |-> 4, D |-> 10]

\* an industry without factors leaves the values alone
C24_WitnessNoEntry ==
    /\ pc = "done"
    /\ industry = "None"
    /\ osd_values = [O |-> 2, S |-> 5, D |-> 10]
    /\ corrected = osd_values

(***************************************************************************)
(* The orchestrator (app/service.py) behind the routes of app/main.py.     *)
(*                                                                         *)
(* A route handler is an async function that calls the service without     *)
(* awaiting anything, so a request runs from start to end without another  *)
(* request in between: one action per route.                               *)
(*                                                                         *)
(* service.py reads business_name, business_description and                *)
(* investment_amount from the input of analyze_initial_business, and hands *)
(* generate_questions four and generate_risk_report seven positional       *)
(* arguments.  InitialBusinessInput of models.py declares the field        *)
(* concept only, and GPTService of gpt_service.py takes (concept, methods) *)
(* and (concept, methods, questions, answers, industry_category).  Both    *)
(* kinds of input and both outcomes of the two calls are part of the       *)
(* model: an input without the three attributes ends in AttributeError,    *)
(* a collaborator that does not take the arguments in TypeError.  The      *)
(* collaborator is fixed when the service is constructed (gpt_service).    *)
(*                                                                         *)
(* A session is a dict; the keys questions, answers and final_report are   *)
(* absent until written, which the field keys records.  created_at (a      *)
(* time stamp) and the texts the generator writes are left out.            *)
(***************************************************************************)
SessionIds == 1..MaxSessions

\* an absent investment amount (None) is << >>, an amount n is <<n>>
InvestmentAmounts == { << >>, << 50000000 >> }

\* the inputs tried: an InitialBusinessInput as models.py declares it, and
\* objects with the three attributes: a description without keyword and
\* without an investment amount, the education platform with one
BusinessInputs ==
    { [has_business_fields |-> FALSE, business_name |-> "None",
       business_description |-> Vocabulary[6], investment_amount |-> << >>],
      [has_business_fields |-> TRUE, business_name |-> "AI",
       business_description |-> Vocabulary[1], investment_amount |-> << >>],
      [has_business_fields |-> TRUE, business_name |-> "AI",
       business_description |-> Vocabulary[6],
       investment_amount |-> << 50000000 >>] }

\* inputs with the same investment whose descriptions are classified as
\* education, manufacturing and finance first
ReportInputs ==
    { [has_business_fields |-> TRUE, business_name |-> "AI",
       business_description |-> d, investment_amount |-> << 50000000 >>] :
        d \in { Vocabulary[6], Vocabulary[10], Vocabulary[12] } }

\* the collaborator RiskAnalysisService is constructed with: GPTService as
\* gpt_service.py declares it (what main.py passes), or one that takes the
\* arguments service.py calls it with and runs the same bodies
GPTServices == {"declared", "as_called"}

\* how a call of the narrative collaborator with the arguments of service.py
\* ends
CallOutcome == IF gpt_service = "declared" THEN "TypeError" ELSE "returns"

\* what generate_content does for one prompt: it raises ("error"), answers
\* without candidates ("blocked"), or answers a text of which some lines
\* have the form "Q<n>: ..." (no such line: a malformed answer)
GeneratorReply(outcome, lines) == [outcome |-> outcome, lines |-> lines]

IsFailure(reply) == reply.outcome \in {"error", "blocked"}

IsMalformed(reply) == reply.outcome = "text" /\ reply.lines = 0

\* the replies tried for the two prompts of generate_questions: both fail,
\* both malformed, both well-formed with more lines than are kept
GeneratorRuns ==
    { << GeneratorReply("error", 0), GeneratorReply("blocked", 0) >>,
      << GeneratorReply("text", 0), GeneratorReply("text", 0) >>,
      << GeneratorReply("text", 4), GeneratorReply("text", 3) >> }

\* the replies tried for the prompt of generate_risk_report
ReportReplies ==
    { GeneratorReply("error", 0), GeneratorReply("blocked", 0),
      GeneratorReply("text", 0), GeneratorReply("text", 4) }

MAX_QUESTIONS_PER_METHOD == 3
MAX_QUESTIONS == 5
FALLBACK_QUESTIONS == 5

RECURSIVE Flatten(_)
Flatten(ss) == IF ss = << >> THEN << >> ELSE Head(ss) \o Flatten(Tail(ss))

\* GPTService._get_fallback_questions: the five fixed questions of a method,
\* ids method<i>_q1 .. method<i>_q5
get_fallback_questions(method, i) ==
    [k \in 1..FALLBACK_QUESTIONS |->
        [question_id |-> <<i, k>>, method |-> method,
         question_text |-> <<"fallback", k>>]]

\* GPTService._parse_questions_from_gpt_response: one question for each line
\* of the form "Q<n>: ...", ids method<i>_q1 ..
parse_questions_from_gpt_response(lines, method, i) ==
    [k \in 1..lines |->
        [question_id |-> <<i, k>>, method |-> method,
         question_text |-> <<"generated", k>>]]

\* the body of the loop of GPTService.generate_questions for method number i
MethodQuestions(methods, i, reply) ==
    IF IsFailure(reply)
    THEN Take(get_fallback_questions(methods[i], i), MAX_QUESTIONS_PER_METHOD)
    ELSE Take(parse_questions_from_gpt_response(reply.lines, methods[i], i),
              MAX_QUESTIONS_PER_METHOD)

\* GPTService.generate_questions: at most 3 per method, at most 5 in all
generate_questions(methods, replies) ==
    Take(Flatten([i \in DOMAIN methods |-> MethodQuestions(methods, i, replies[i])]),
         MAX_QUESTIONS)

\* the answers a client submits
AnswerLists == { << >>, << [question_id |-> <<1, 1>>, answer |-> "a"] >> }

\* GPTService._get_fallback_osd_report: three observations for each method
FallbackOSDRisks ==
    << [occurrence |-> 7, severity |-> 8, detection |-> 6, risk_score |-> 336],
       [occurrence |-> 5, severity |-> 9, detection |-> 7, risk_score |-> 315],
       [occurrence |-> 6, severity |-> 6, detection |-> 5, risk_score |-> 180] >>

\* the five recommendations of the fallback report (category and priority;
\* the other three fields are literals as well)
FallbackRecommendations ==
    << [category |-> "market_validation", priority |-> "high"],
       [category |-> "mvp_development", priority |-> "high"],
       [category |-> "financial_management", priority |-> "medium"],
       [category |-> "team_capability", priority |-> "medium"],
       [category |-> "customer_feedback", priority |-> "high"] >>

\* the fallback report whose first observation depends on how many sessions
\* the store holds: a mutation
get_fallback_osd_report_varying(methods) ==
    [method_results |->
        [i \in DOMAIN methods |->
            [method |-> methods[i],
             osd_risks |->
                [FallbackOSDRisks EXCEPT ![1].occurrence = Cardinality(DOMAIN sessions),
                                         ![1].risk_score = Cardinality(DOMAIN sessions) * 48]]],
     ai_recommendations |-> FallbackRecommendations,
     executive_summary |-> "fallback_summary"]

\* GPTService._get_fallback_osd_report: for each method its name and three
\* observations (the findings and insights are texts made of the method's
\* name), the recommendations and the summary
get_fallback_osd_report(methods) ==
    [method_results |->
        [i \in DOMAIN methods |-> [method |-> methods[i], osd_risks |-> FallbackOSDRisks]],
     ai_recommendations |-> FallbackRecommendations,
     executive_summary |-> "fallback_summary"]

\* a parser that keeps as many observations for each method as the text has
\* lines: a mutation
parse_osd_report_by_lines(lines, methods) ==
    [method_results |->
        [i \in DOMAIN methods |->
            [method |-> methods[i], osd_risks |-> Take(FallbackOSDRisks, lines)]],
     ai_recommendations |-> FallbackRecommendations,
     executive_summary |-> "fallback_summary"]

\* GPTService._parse_osd_report: the text is not read
parse_osd_report(lines, methods) == get_fallback_osd_report(methods)

\* GPTService.generate_risk_report
generate_risk_report(methods, reply) ==
    IF IsFailure(reply)
    THEN get_fallback_osd_report(methods)
    ELSE parse_osd_report(reply.lines, methods)

StageRank(stage) ==
    CASE stage = "created" -> 0
      [] stage = "initial_analyzed" -> 1
      [] stage = "questions_generated" -> 2
      [] stage = "report_generated" -> 3

NoReport == [overall_risk_score |-> 0, overall_risk_level |-> "None",
             risk_grade |-> "None", osd_risks |-> << >>,
             cash_loss_analysis |-> << >>,
             ai_recommendations |-> << >>, executive_summary |-> "None",
             analysis_methods_used |-> << >>]

\* the outcome of a request: the HTTP status the route answers with, the
\* exception the service raised ("None" when it returned), and the stage the
\* session of the request was in when the request arrived ("None" when the
\* request names no session of the store)
Response(op, status, error, stage) ==
    [op |-> op, status |-> status, error |-> error, stage |-> stage]

\* every route answering ValueError with 400: a mutation
HTTPStatusAlways400(op, error) ==
    IF error = "None" THEN 200
    ELSE IF error \in {"ValueError", "ValidationError"} THEN 400
    ELSE 500

\* the except clauses of the routes: analyze_initial answers ValueError with
\* 400, the other two with 404 (pydantic's ValidationError is a ValueError),
\* and every route answers any other exception with 500
HTTPStatus(op, error) ==
    IF error = "None" THEN 200
    ELSE IF error \in {"ValueError", "ValidationError"}
         THEN (IF op = "analyze_initial_business" THEN 400 ELSE 404)
         ELSE 500

\* what a route does with the outcome of the service call
Respond(op, error, stage) == Response(op, HTTPStatus(op, error), error, stage)

\* the dict generate_questions hands to update_session
QuestionsUpdate(questions) ==
    [questions |-> questions, stage |-> "questions_generated"]

\* the dict generate_final_report hands to update_session
ReportUpdate(answers, final_report) ==
    [answers |-> answers, stage |-> "report_generated",
     final_report |-> final_report]

\* update_session applying the updates to every session of the store, as if
\* the sessions shared one dict: a mutation
update_session_all(id, updates) ==
    IF id \in DOMAIN sessions
    THEN [other \in DOMAIN sessions |->
            [f \in DOMAIN sessions[other] |->
                IF f = "keys" THEN sessions[other].keys \cup (DOMAIN updates \ {"stage"})
                ELSE IF f \in DOMAIN updates THEN updates[f]
                ELSE sessions[other][f]]]
    ELSE sessions

\* SessionStore.update_session
update_session(id, updates) ==
    IF id \in DOMAIN sessions
    THEN [sessions EXCEPT ![id] =
            [f \in DOMAIN sessions[id] |->
                IF f = "keys" THEN sessions[id].keys \cup (DOMAIN updates \ {"stage"})
                ELSE IF f \in DOMAIN updates THEN updates[f]
                ELSE sessions[id][f]]]
    ELSE sessions

\* str(uuid.uuid4()): an id no session has.  Ids are opaque, so the sessions
\* are numbered in the order of their creation.
NewSessionId == Cardinality(DOMAIN sessions) + 1

\* create_session that starts the store over with the new session alone: a
\* mutation
create_session_alone(id, session_data) ==
    [i \in {id} |-> session_data]

\* SessionStore.create_session under the fresh id
create_session(id, session_data) ==
    [i \in DOMAIN sessions \cup {id} |->
        IF i = id THEN session_data ELSE sessions[i]]

\* classify_business on the descriptions of BusinessInputs
ClassifiedInputs ==
    [d \in { i.business_description : i \in BusinessInputs \cup ReportInputs } |->
        classify_business(d)]

\* IndustryCategory(categories_data[0]["category_id"]) if categories_data
\* else IndustryCategory.GENERAL_BUSINESS
SessionIndustry(session) ==
    IF session.categories = << >> THEN "GENERAL_BUSINESS"
    ELSE session.categories[1].category_id

\* CashLossAnalysis(...) of the dict calculate_total_expected_loss returned
CashLossAnalysis(cost) ==
    [total_expected_loss |-> cost.total_expected_loss,
     cost_breakdown |-> cost.cost_breakdown,
     loss_by_risk |-> cost.loss_by_risk,
     probability_weighted_loss |-> cost.probability_weighted_loss]

\* every OSDScore(**osd) of the report, in order; << >> stands for one that
\* raised ValidationError
BuildOSDScores(method_results) ==
    LET raw == Flatten([i \in DOMAIN method_results |-> method_results[i].osd_risks])
    IN  [i \in DOMAIN raw |-> OSDScore(raw[i])]

(***************************************************************************)
(* POST /api/v1/analyze/initial                                            *)
(* is_valid: what validate_business_input answers for the description      *)
(***************************************************************************)
AnalyzeInitialBusinessWith(business_input, is_valid) ==
    /\ pc = "serving"
    /\ IF ~business_input.has_business_fields
       THEN \* business_input.business_description: no such attribute
            /\ response' = Respond("analyze_initial_business", "AttributeError", "None")
            /\ UNCHANGED sessions
       ELSE IF ~is_valid
            THEN \* validation failed: ValueError
                 /\ response' = Respond("analyze_initial_business", "ValueError", "None")
                 /\ UNCHANGED sessions
            ELSE LET cats == ClassifiedInputs[business_input.business_description]
                     methods == select_analysis_methods(
                                    [i \in DOMAIN cats |-> cats[i].category_id])
                     session_data ==
                         [business_name |-> business_input.business_name,
                          business_description |-> business_input.business_description,
                          investment_amount |-> business_input.investment_amount,
                          categories |-> cats,
                          methods |-> methods,
                          stage |-> "initial_analyzed",
                          keys |-> {},
                          questions |-> << >>,
                          answers |-> << >>,
                          final_report |-> NoReport]
                 IN  /\ Cardinality(DOMAIN sessions) < MaxSessions
                     /\ sessions' = create_session(NewSessionId, session_data)
                     /\ response' = Respond("analyze_initial_business", "None", "None")
    /\ UNCHANGED <<pc, gpt_service, selectVars, classifyVars, levelVars, osdVars, riskVars, costVars>>

AnalyzeInitialBusiness(business_input) ==
    \E is_valid \in BOOLEAN : AnalyzeInitialBusinessWith(business_input, is_valid)

\* the stage of the session a request names
StageOf(id) == IF id \in DOMAIN sessions THEN sessions[id].stage ELSE "None"

(***************************************************************************)
(* POST /api/v1/analyze/questions, the generator answering with replies    *)
(***************************************************************************)
\* generate_questions refusing a session that has left initial_analyzed: a
\* mutation
GenerateQuestionsOnce(id, replies) ==
    /\ pc = "serving"
    /\ IF id \notin DOMAIN sessions
       THEN /\ response' = Respond("generate_questions", "ValueError", StageOf(id))
            /\ UNCHANGED sessions
       ELSE IF sessions[id].stage # "initial_analyzed"
       THEN /\ response' = Respond("generate_questions", "ValueError", StageOf(id))
            /\ UNCHANGED sessions
       ELSE IF CallOutcome # "returns"
       THEN /\ response' = Respond("generate_questions", CallOutcome, StageOf(id))
            /\ UNCHANGED sessions
       ELSE /\ sessions' = update_session(id,
                   QuestionsUpdate(generate_questions(sessions[id].methods, replies)))
            /\ response' = Respond("generate_questions", "None", StageOf(id))
    /\ UNCHANGED <<pc, gpt_service, selectVars, classifyVars, levelVars, osdVars, riskVars, costVars>>

\* generate_questions writing the stage before it calls the collaborator: a
\* mutation
GenerateQuestionsStageFirst(id, replies) ==
    /\ pc = "serving"
    /\ IF id \notin DOMAIN sessions
       THEN /\ response' = Respond("generate_questions", "ValueError", StageOf(id))
            /\ UNCHANGED sessions
       ELSE IF CallOutcome # "returns"
       THEN /\ sessions' = update_session(id, [stage |-> "questions_generated"])
            /\ response' = Respond("generate_questions", CallOutcome, StageOf(id))
       ELSE /\ sessions' = update_session(id,
                   QuestionsUpdate(generate_questions(sessions[id].methods, replies)))
            /\ response' = Respond("generate_questions", "None", StageOf(id))
    /\ UNCHANGED <<pc, gpt_service, selectVars, classifyVars, levelVars, osdVars, riskVars, costVars>>

GenerateQuestionsWith(id, replies) ==
    /\ pc = "serving"
    /\ IF id \notin DOMAIN sessions
       THEN \* unknown session: ValueError
            /\ response' = Respond("generate_questions", "ValueError", StageOf(id))
            /\ UNCHANGED sessions
       ELSE IF CallOutcome # "returns"
       THEN \* the collaborator does not take the four arguments
            /\ response' = Respond("generate_questions", CallOutcome, StageOf(id))
            /\ UNCHANGED sessions
       ELSE /\ sessions' = update_session(id,
                   QuestionsUpdate(generate_questions(sessions[id].methods, replies)))
            /\ response' = Respond("generate_questions", "None", StageOf(id))
    /\ UNCHANGED <<pc, gpt_service, selectVars, classifyVars, levelVars, osdVars, riskVars, costVars>>

GenerateQuestions(id) ==
    \E replies \in GeneratorRuns : GenerateQuestionsWith(id, replies)

(***************************************************************************)
(* POST /api/v1/analyze/report, the collaborator returning gpt_report      *)
(***************************************************************************)
GenerateFinalReportFrom(id, answers, gpt_report) ==
    /\ pc = "serving"
    /\ IF id \notin DOMAIN sessions
       THEN \* unknown session: ValueError
            /\ response' = Respond("generate_final_report", "ValueError", StageOf(id))
            /\ UNCHANGED sessions
       ELSE IF "questions" \notin sessions[id].keys
       THEN \* session["questions"]
            /\ response' = Respond("generate_final_report", "KeyError", StageOf(id))
            /\ UNCHANGED sessions
       ELSE IF CallOutcome # "returns"
       THEN \* the collaborator does not take the seven arguments
            /\ response' = Respond("generate_final_report", CallOutcome, StageOf(id))
            /\ UNCHANGED sessions
       ELSE \E built \in {BuildOSDScores(gpt_report.method_results)} :
            IF \E i \in DOMAIN built : built[i].result # "OSDScore"
            THEN /\ response' = Respond("generate_final_report", "ValidationError", StageOf(id))
                 /\ UNCHANGED sessions
            ELSE \E all_osd_scores \in {[i \in DOMAIN built |-> built[i].value]} :
                 \E err \in FPErrors(all_osd_scores) :
                 \E result \in {calculate_overall_risk(all_osd_scores, err)} :
                 \E cost \in {calculate_total_expected_loss(
                                  all_osd_scores, sessions[id].investment_amount,
                                  SessionIndustry(sessions[id]))} :
                 IF cost.result # "dict"
                 THEN \* None * 0.6 in calculate_total_expected_loss
                      /\ response' = Respond("generate_final_report", cost.result, StageOf(id))
                      /\ UNCHANGED sessions
                 ELSE LET final_report ==
                              [overall_risk_score |-> result.overall_score,
                               overall_risk_level |-> result.level,
                               risk_grade |-> result.grade,
                               osd_risks |-> all_osd_scores,
                               cash_loss_analysis |-> << CashLossAnalysis(cost.value) >>,
                               ai_recommendations |-> gpt_report.ai_recommendations,
                               executive_summary |-> gpt_report.executive_summary,
                               analysis_methods_used |-> sessions[id].methods]
                      IN  /\ sessions' = update_session(id,
                                 ReportUpdate(answers, final_report))
                          /\ response' = Respond("generate_final_report", "None", StageOf(id))
    /\ UNCHANGED <<pc, gpt_service, selectVars, classifyVars, levelVars, osdVars, riskVars, costVars>>

\* methods = [AnalysisMethod(m) for m in session["methods"]]
SessionMethods(id) ==
    IF id \in DOMAIN sessions THEN sessions[id].methods ELSE << >>

\* the generator answering the prompt of the report with reply
GenerateFinalReportWith(id, answers, reply) ==
    GenerateFinalReportFrom(id, answers,
                            generate_risk_report(SessionMethods(id), reply))

GenerateFinalReport(id, answers) ==
    \E gpt_report \in { generate_risk_report(SessionMethods(id), reply) :
                            reply \in ReportReplies } :
        GenerateFinalReportFrom(id, answers, gpt_report)

Init ==
    /\ pc = "serving"
    /\ sessions = << >>
    /\ response = Response("None", 0, "None", "None")
    /\ gpt_service \in GPTServices
    /\ IdleCost
    /\ IdleSelect
    /\ IdleClassify
    /\ IdleLevel
    /\ IdleOSD
    /\ IdleRisk

Next ==
    \/ \E business_input \in BusinessInputs : AnalyzeInitialBusiness(business_input)
    \/ \E id \in SessionIds : GenerateQuestions(id)
    \/ \E id \in SessionIds, answers \in AnswerLists : GenerateFinalReport(id, answers)

Spec == Init /\ [][Next]_vars

(***************************************************************************)
(* SpecReport: sessions of different industries with the same investment,  *)
(* taken through analyze, generate_questions (the generator failing) and   *)
(* generate_final_report.                                                  *)
(***************************************************************************)
NextReport ==
    \/ \E business_input \in ReportInputs :
            AnalyzeInitialBusinessWith(business_input, TRUE)
    \/ \E id \in SessionIds :
            GenerateQuestionsWith(id, << GeneratorReply("error", 0),
                                        GeneratorReply("blocked", 0) >>)
    \/ \E id \in SessionIds, answers \in AnswerLists : GenerateFinalReport(id, answers)

SpecReport == Init /\ [][NextReport]_vars

(***************************************************************************)
(* C2: the stage of a session only advances along created ->               *)
(* initial_analyzed -> questions_generated -> report_generated: no request *)
(* moves the stage of a session to an earlier one.  generate_questions     *)
(* writes questions_generated whatever the stage was, so a session that is *)
(* report_generated is put back to questions_generated.                    *)
(***************************************************************************)
C2_StageNeverRegresses ==
    [][\A id \in DOMAIN sessions :
          id \in DOMAIN sessions' =>
              StageRank(sessions'[id].stage) >= StageRank(sessions[id].stage)]_vars

(***************************************************************************)
(* C3: generate_final_report on a session that holds no questions yet is   *)
(* answered with a client error (4xx) and does not reach report_generated. *)
(* The missing key raises KeyError, which the route answers with 500.      *)
(***************************************************************************)
C3_ReportBeforeQuestionsIsClientError ==
    [][\A id \in DOMAIN sessions, answers \in AnswerLists :
          ("questions" \notin sessions[id].keys /\ GenerateFinalReport(id, answers))
          => /\ response'.status \in 400..499
             /\ sessions'[id].stage # "report_generated"]_vars

(***************************************************************************)
(* C12: a failure of the narrative generator (an error, a safety block, a  *)
(* malformed answer) during generate_questions or generate_final_report on *)
(* an existing session in the required stage is not propagated: the        *)
(* request succeeds, the result is the fixed fallback questions or the     *)
(* fallback report, and the session advances as on success.  Stated for a  *)
(* collaborator that takes the arguments of service.py (the generator is   *)
(* not reached otherwise) and, for the report, a session with an           *)
(* investment amount.  A text without any line "Q<n>: ..." raises nothing: *)
(* it parses to no question and no fallback question is used.              *)
(***************************************************************************)
FallbackQuestionList(methods) ==
    generate_questions(methods, [i \in DOMAIN methods |-> GeneratorReply("error", 0)])

GeneratorFails(reply) == IsFailure(reply) \/ IsMalformed(reply)

C12_GeneratorFailureFallsBack ==
    [][/\ \A id \in DOMAIN sessions, replies \in GeneratorRuns :
            ( /\ gpt_service = "as_called"
              /\ sessions[id].stage = "initial_analyzed"
              /\ \A i \in DOMAIN replies : GeneratorFails(replies[i])
              /\ GenerateQuestionsWith(id, replies) )
            => /\ response'.status = 200
               /\ sessions'[id].stage = "questions_generated"
               /\ sessions'[id].questions = FallbackQuestionList(sessions[id].methods)
       /\ \A id \in DOMAIN sessions, answers \in AnswerLists, reply \in ReportReplies :
            ( /\ gpt_service = "as_called"
              /\ sessions[id].stage = "questions_generated"
              /\ sessions[id].investment_amount # << >>
              /\ GeneratorFails(reply)
              /\ GenerateFinalReportWith(id, answers, reply) )
            => /\ response'.status = 200
               /\ sessions'[id].stage = "report_generated"
               /\ sessions'[id].final_report.osd_risks
                    = Flatten([i \in DOMAIN sessions[id].methods |-> FallbackOSDRisks])
      ]_vars

(***************************************************************************)
(* C13: generate_questions and generate_final_report with a session id the *)
(* store does not hold are answered with 404, and the store is left as it  *)
(* was: no session is created and none is modified.                        *)
(***************************************************************************)
C13_UnknownSessionIs404 ==
    [][\A id \in SessionIds \ DOMAIN sessions :
          /\ GenerateQuestions(id)
                => response'.status = 404 /\ sessions' = sessions
          /\ \A answers \in AnswerLists :
                GenerateFinalReport(id, answers)
                => response'.status = 404 /\ sessions' = sessions]_vars

\* a request for an unknown id answered while the store holds a session
\* that has its questions
C13_Witness ==
    /\ response.op = "generate_final_report"
    /\ response.status = 404
    /\ response.error = "ValueError"
    /\ DOMAIN sessions = {1}
    /\ sessions[1].stage = "questions_generated"

(***************************************************************************)
(* C14: the report carries cash_loss_analysis only when the session has an *)
(* investment amount; for a session without one generate_final_report      *)
(* still answers with a report, which has no cash_loss_analysis.  Stated   *)
(* for a session that has its questions and a collaborator that takes the  *)
(* arguments of service.py.  calculate_total_expected_loss is called       *)
(* whatever the amount is, and None * ratio raises TypeError.              *)
(***************************************************************************)
C14_CashLossOnlyWithInvestment ==
    [][\A id \in DOMAIN sessions, answers \in AnswerLists :
          ( /\ gpt_service = "as_called"
            /\ "questions" \in sessions[id].keys
            /\ GenerateFinalReport(id, answers) )
          => /\ response'.status = 200
             /\ sessions'[id].stage = "report_generated"
             /\ (sessions'[id].final_report.cash_loss_analysis = << >>)
                   <=> (sessions[id].investment_amount = << >>)]_vars

\* a report with its cash_loss_analysis: the session has an investment
C14_Witness ==
    /\ response.op = "generate_final_report"
    /\ response.status = 200
    /\ \E id \in DOMAIN sessions :
          /\ sessions[id].stage = "report_generated"
          /\ sessions[id].investment_amount = << 50000000 >>
          /\ sessions[id].final_report.cash_loss_analysis # << >>
          /\ sessions[id].final_report.cash_loss_analysis[1].total_expected_loss = 44460000

(***************************************************************************)
(* C18: when the business description fails validation,                    *)
(* analyze_initial_business answers with the client error 400 before the   *)
(* classifier runs, and the session store is after the call what it was    *)
(* before it.  An InitialBusinessInput as models.py declares it has no     *)
(* business_description: reading it raises AttributeError before the       *)
(* description is validated, and the route answers with 500.               *)
(***************************************************************************)
C18_ValidationFailureIs400 ==
    [][\A business_input \in BusinessInputs :
          AnalyzeInitialBusinessWith(business_input, FALSE)
          => response'.status = 400 /\ sessions' = sessions]_vars

\* a description refused while the store holds a session: 400, store as before
C18_Witness ==
    /\ response.op = "analyze_initial_business"
    /\ response.status = 400
    /\ response.error = "ValueError"
    /\ DOMAIN sessions = {1}

(***************************************************************************)
(* C19: two requests on the same session (generate_questions and           *)
(* generate_final_report, or two generate_questions) are handled one after *)
(* the other and no write is lost: a session that holds a final_report is  *)
(* in stage report_generated, and its stored questions stay those the      *)
(* stored final_report was built from.  The requests are handled one at a  *)
(* time, but generate_questions arriving second overwrites the stage and   *)
(* the questions of a session that holds a report (see C2).                *)
(***************************************************************************)
C19_NoLostUpdate ==
    [][\A id \in DOMAIN sessions :
          /\ "final_report" \in sessions'[id].keys
                => sessions'[id].stage = "report_generated"
          /\ "final_report" \in sessions[id].keys
                => sessions'[id].questions = sessions[id].questions]_vars

(***************************************************************************)
(* C20: a retry of a stage transition succeeds and leaves the stage as the *)
(* first call left it: generate_questions on a session in                  *)
(* questions_generated, and generate_final_report with the answers already *)
(* stored on a session in report_generated.                                *)
(***************************************************************************)
C20_RetryKeepsStage ==
    [][\A id \in DOMAIN sessions :
          /\ (sessions[id].stage = "questions_generated" /\ GenerateQuestions(id))
                => /\ response'.status = 200
                   /\ sessions'[id].stage = "questions_generated"
          /\ \A answers \in AnswerLists :
                ( /\ sessions[id].stage = "report_generated"
                  /\ answers = sessions[id].answers
                  /\ GenerateFinalReport(id, answers) )
                => /\ response'.status = 200
                   /\ sessions'[id].stage = "report_generated"
                   /\ sessions'[id].answers = answers]_vars

\* generate_questions answered with 200 for a session that was in
\* questions_generated and never held a report
C20_Witness ==
    /\ response.op = "generate_questions"
    /\ response.status = 200
    /\ response.stage = "questions_generated"
    /\ DOMAIN sessions = {1}
    /\ sessions[1].stage = "questions_generated"
    /\ "final_report" \notin sessions[1].keys

(***************************************************************************)
(* C22: the fallback data used when the narrative generator fails is the   *)
(* same on every call: a generate_final_report run in which the generator  *)
(* fails yields the observations, methods, recommendations, summary,       *)
(* overall score, level and grade of every report stored before for the    *)
(* same methods, and the fallback question of a method and position is the *)
(* same on every failure.                                                  *)
(***************************************************************************)
SameNarrativeAndRisk(report, other) ==
    /\ report.osd_risks = other.osd_risks
    /\ report.analysis_methods_used = other.analysis_methods_used
    /\ report.ai_recommendations = other.ai_recommendations
    /\ report.executive_summary = other.executive_summary
    /\ report.overall_risk_score = other.overall_risk_score
    /\ report.overall_risk_level = other.overall_risk_level
    /\ report.risk_grade = other.risk_grade

IsFallbackQuestion(q) == q.question_text[1] = "fallback"

C23_SessionsNeverDeleted ==
    [][\A id \in DOMAIN sessions : id \in DOMAIN sessions']_vars

\* two sessions, the first with its report, and the last request a failed
\* generate_final_report
C23_Witness ==
    /\ DOMAIN sessions = {1, 2}
    /\ sessions[1].stage = "report_generated"
    /\ sessions[2].stage = "initial_analyzed"
    /\ response.op = "generate_final_report"
    /\ response.status = 500

(***************************************************************************)
(* C25: the decision chain of select_analysis_methods.  No category gives  *)
(* (SWOT, Lean Canvas).  Otherwise the first method is the top method of   *)
(* the first category; the second method is, when there is a second        *)
(* category, the first method of its list that is not the one already      *)
(* selected, else the second method of the first category.  Categories     *)
(* after the second change nothing: any list with the same first two       *)
(* categories gives the same two methods.                                  *)
(***************************************************************************)
FirstOtherThan(methods, method) ==
    methods[CHOOSE k \in DOMAIN methods :
                /\ methods[k] # method
                /\ \A j \in 1..(k - 1) : methods[j] = method]

C25_DecisionChain ==
    pc = "done" =>
        IF categories = << >>
        THEN selected = << "SWOT", "LEAN_CANVAS" >>
        ELSE /\ selected[1] = INDUSTRY_METHODS[categories[1]][1]
             /\ Len(categories) = 1 =>
                    selected[2] = INDUSTRY_METHODS[categories[1]][2]
             /\ Len(categories) > 1 =>
                    /\ selected[2] = FirstOtherThan(INDUSTRY_METHODS[categories[2]],
                                                    selected[1])
                    /\ \A later \in SeqUpTo(IndustryCategorySet, 1) :
                          select_analysis_methods(SubSeq(categories, 1, 2) \o later)
                              = selected

\* three categories, the third with methods of its own that are not taken
C25_Witness ==
    /\ pc = "done"
    /\ categories = << "IT_STARTUP", "MARKETING", "FINANCE" >>
    /\ selected = << "LEAN_CANVAS", "STP" >>

\* the second category is the first again: its top method is skipped
C25_WitnessSkip ==
    /\ pc = "done"
    /\ categories = << "GENERAL_BUSINESS", "GENERAL_BUSINESS" >>
    /\ selected = << "SWOT", "LEAN_CANVAS" >>

(***************************************************************************)
(* C26: categories of equal confidence are ranked in the order in which    *)
(* the keyword table declares them (education, it_startup, manufacturing,  *)
(* marketing, finance, service, project_management).  Of two returned      *)
(* entries with the same confidence the earlier declared comes first; a    *)
(* matched category left out with the confidence of a returned one is      *)
(* declared after it.                                                      *)
(***************************************************************************)
DeclarationRank(c) ==
    CHOOSE k \in DOMAIN KeywordCategories : KeywordCategories[k] = c

C26_TiesInDeclarationOrder ==
    pc = "done" /\ MatchedCategories # {} =>
        /\ (/\ Len(classified) = 2
            /\ classified[1].confidence_score = classified[2].confidence_score)
           => DeclarationRank(classified[1].category_id)
                  < DeclarationRank(classified[2].category_id)
        /\ \A c \in MatchedCategories \ ReturnedCategories :
              \A i \in DOMAIN classified :
                  Min(Matches(c) * 15, 95) = classified[i].confidence_score
                  => DeclarationRank(classified[i].category_id) < DeclarationRank(c)

\* education ahead, manufacturing and service tied for the second place:
\* manufacturing, declared earlier, is kept
C26_Witness ==
    /\ pc = "done"
    /\ Len(classified) = 2
    /\ classified[1].category_id = "EDUCATION"
    /\ classified[2] = [category_id |-> "MANUFACTURING", confidence_score |-> 15]
    /\ "SERVICE" \in MatchedCategories \ ReturnedCategories
    /\ Matches("SERVICE") = 1
    /\ classified[1].confidence_score > 15

\* two categories tied at the top
C26_WitnessTopTie ==
    /\ pc = "done"
    /\ Len(classified) = 2
    /\ classified[1].confidence_score = classified[2].confidence_score
    /\ classified[1].category_id = "MANUFACTURING"
    /\ classified[2].category_id = "SERVICE"

(***************************************************************************)
(* C27: every final report of a session with two methods carries the same  *)
(* aggregate, whatever the answers were and whatever the generator         *)
(* returned: six observations with the risk scores 336, 315, 180, 336,     *)
(* 315, 180, the overall score 32.07, the level high and the grade D.      *)
(***************************************************************************)
C27_ReportAggregateFixed ==
    \A id \in DOMAIN sessions :
        ("final_report" \in sessions[id].keys /\ Len(sessions[id].methods) = 2)
        => /\ RiskScores(sessions[id].final_report.osd_risks)
                  = << 336, 315, 180, 336, 315, 180 >>
           /\ sessions[id].final_report.overall_risk_score = 3207
           /\ sessions[id].final_report.overall_risk_level = "high"
           /\ sessions[id].final_report.risk_grade = "D"

\* a report made from answers on generated questions and one made without
\* answers on fallback questions
C27_Witness ==
    /\ DOMAIN sessions = {1, 2}
    /\ "final_report" \in sessions[1].keys
    /\ "final_report" \in sessions[2].keys
    /\ Len(sessions[1].methods) = 2
    /\ sessions[1].answers # << >>
    /\ sessions[2].answers = << >>
    /\ \E i \in DOMAIN sessions[1].questions :
            ~IsFallbackQuestion(sessions[1].questions[i])
    /\ \A i \in DOMAIN sessions[2].questions :
            IsFallbackQuestion(sessions[2].questions[i])
    /\ sessions[1].final_report.overall_risk_score = 3207

(***************************************************************************)
(* C28: the industry of a session does not reach the risk figures of its   *)
(* final report.  Two reports of sessions with the same investment, of     *)
(* whatever first category, agree in overall score, level, grade, the      *)
(* expected loss of every risk, the total expected loss, capex and opex;   *)
(* only the details of the cost breakdown follow the industry.             *)
(***************************************************************************)
SameRiskFigures(report, other) ==
    /\ report.overall_risk_score = other.overall_risk_score
    /\ report.overall_risk_level = other.overall_risk_level
    /\ report.risk_grade = other.risk_grade
    /\ report.osd_risks = other.osd_risks
    /\ report.cash_loss_analysis[1].loss_by_risk
          = other.cash_loss_analysis[1].loss_by_risk
    /\ report.cash_loss_analysis[1].total_expected_loss
          = other.cash_loss_analysis[1].total_expected_loss
    /\ report.cash_loss_analysis[1].probability_weighted_loss
          = other.cash_loss_analysis[1].probability_weighted_loss
    /\ report.cash_loss_analysis[1].cost_breakdown.capex
          = other.cash_loss_analysis[1].cost_breakdown.capex
    /\ report.cash_loss_analysis[1].cost_breakdown.opex
          = other.cash_loss_analysis[1].cost_breakdown.opex
    /\ report.cash_loss_analysis[1].cost_breakdown.risk_impact_cost
          = other.cash_loss_analysis[1].cost_breakdown.risk_impact_cost

C28_IndustryDoesNotChangeRiskFigures ==
    \A id \in DOMAIN sessions, other \in DOMAIN sessions :
        ( /\ "final_report" \in sessions[id].keys
          /\ "final_report" \in sessions[other].keys
          /\ sessions[id].investment_amount = sessions[other].investment_amount )
        => SameRiskFigures(sessions[id].final_report, sessions[other].final_report)

\* an education session and a finance session with their reports: the
\* details of the cost breakdown differ
C28_Witness ==
    /\ DOMAIN sessions = {1, 2}
    /\ "final_report" \in sessions[1].keys
    /\ "final_report" \in sessions[2].keys
    /\ sessions[1].categories[1].category_id = "EDUCATION"
    /\ sessions[2].categories[1].category_id = "FINANCE"
    /\ sessions[1].investment_amount = sessions[2].investment_amount
    /\ sessions[1].final_report.cash_loss_analysis[1].cost_breakdown.details
          # sessions[2].final_report.cash_loss_analysis[1].cost_breakdown.details
    /\ sessions[1].final_report.cash_loss_analysis[1].total_expected_loss
          = sessions[2].final_report.cash_loss_analysis[1].total_expected_loss

(***************************************************************************)
(* C29: generate_questions and generate_final_report write to the session  *)
(* as their last step only.  A request of either kind that fails (unknown  *)
(* session, missing session data, a record that does not validate, an      *)
(* error of the collaborator) leaves every session as it was: stage,       *)
(* questions, answers and final_report included.                           *)
(***************************************************************************)
C29_FailureLeavesSessionUntouched ==
    [][( /\ response'.op \in {"generate_questions", "generate_final_report"}
         /\ response'.status # 200 )
       => /\ DOMAIN sessions' = DOMAIN sessions
          /\ \A id \in DOMAIN sessions :
                /\ sessions'[id].stage = sessions[id].stage
                /\ sessions'[id].questions = sessions[id].questions
                /\ sessions'[id].answers = sessions[id].answers
                /\ sessions'[id].final_report = sessions[id].final_report
                /\ sessions'[id] = sessions[id]]_vars

\* generate_final_report failed on a session without investment amount: the
\* session still holds its questions and stage, and no answers or report
C29_Witness ==
    /\ response.op = "generate_final_report"
    /\ response.status = 500
    /\ response.error = "TypeError"
    /\ gpt_service = "as_called"
    /\ DOMAIN sessions = {1}
    /\ sessions[1].stage = "questions_generated"
    /\ sessions[1].questions # << >>
    /\ sessions[1].answers = << >>
    /\ sessions[1].keys = {"questions"}

\* generate_questions failed in the collaborator: the session stays
\* initial_analyzed
C29_WitnessQuestions ==
    /\ response.op = "generate_questions"
    /\ response.status = 500
    /\ DOMAIN sessions = {1}
    /\ sessions[1].stage = "initial_analyzed"
    /\ sessions[1].keys = {}

(***************************************************************************)
(* C30: sessions are isolated from each other.  analyze_initial_business   *)
(* stores its data under an id no session had and leaves every existing    *)
(* session as it was.  generate_questions and generate_final_report on one *)
(* session id (hence update_session on it) leave every other session as it *)
(* was, and within the session updated the fields the update does not name *)
(* (business name and description, investment amount, categories, methods; *)
(* for generate_questions also the answers and the final report, for       *)
(* generate_final_report the questions) keep their values.                 *)
(***************************************************************************)
KeepsUnnamedFields(old, new) ==
    /\ new.business_name = old.business_name
    /\ new.business_description = old.business_description
    /\ new.investment_amount = old.investment_amount
    /\ new.categories = old.categories
    /\ new.methods = old.methods

C30_SessionsIsolated ==
    [][/\ response'.op = "analyze_initial_business" =>
            /\ \A id \in DOMAIN sessions :
                  id \in DOMAIN sessions' /\ sessions'[id] = sessions[id]
            /\ Cardinality(DOMAIN sessions' \ DOMAIN sessions) <= 1
            /\ response'.status = 200 =>
                  Cardinality(DOMAIN sessions' \ DOMAIN sessions) = 1
       /\ response'.op = "generate_questions" =>
            \A id \in DOMAIN sessions :
                (response'.stage = sessions[id].stage /\ GenerateQuestions(id)) =>
                    /\ \A other \in DOMAIN sessions \ {id} :
                          sessions'[other] = sessions[other]
                    /\ DOMAIN sessions' = DOMAIN sessions
                    /\ KeepsUnnamedFields(sessions[id], sessions'[id])
                    /\ sessions'[id].answers = sessions[id].answers
                    /\ sessions'[id].final_report = sessions[id].final_report
       /\ response'.op = "generate_final_report" =>
            \A id \in DOMAIN sessions :
                ( /\ response'.stage = sessions[id].stage
                  /\ GenerateFinalReport(id, sessions'[id].answers) ) =>
                    /\ \A other \in DOMAIN sessions \ {id} :
                          sessions'[other] = sessions[other]
                    /\ DOMAIN sessions' = DOMAIN sessions
                    /\ KeepsUnnamedFields(sessions[id], sessions'[id])
                    /\ sessions'[id].questions = sessions[id].questions
      ]_vars

\* the second session was created and taken to its report while the first,
\* of another description, stayed initial_analyzed
C30_Witness ==
    /\ DOMAIN sessions = {1, 2}
    /\ sessions[1].stage = "initial_analyzed"
    /\ sessions[1].keys = {}
    /\ sessions[1].business_description = Vocabulary[1]
    /\ sessions[2].stage = "report_generated"
    /\ sessions[2].business_description = Vocabulary[6]
    /\ sessions[2].investment_amount = << 50000000 >>
    /\ sessions[2].keys = {"questions", "answers", "final_report"}
    /\ response.op = "generate_final_report"
    /\ response.status = 200

====
